---------------------------- MODULE Spec2Model ----------------------------
(***************************************************************************)
(* A model of the LiMo Application Manager client library                  *)
(* (src/src/limo-app-mgr-lib.c): registration, the three launch variants,  *)
(* the messaging channel and the inbound dispatcher message_func.          *)
(*                                                                         *)
(* C strings are sequences of one-character strings, so that g_strconcat,  *)
(* g_strlcat and g_strsplit are computed as the library computes them.     *)
(* A NULL char* is the one-element sequence NULL, which no C string        *)
(* equals (its element is not a single character).                         *)
(***************************************************************************)
EXTENDS Integers, Sequences, FiniteSets, TLC

(***************************************************************************)
(* Bounds of the model                                                     *)
(***************************************************************************)
MaxArgs == 2        \* longest caller argument list
MaxJunk == 1        \* words read past a va_list's NULL terminator before a zero word
MaxInits == 2       \* registrations performed by one process
MaxInstId == 2      \* largest value of a LastInstId registry key

(***************************************************************************)
(* Program constants                                                       *)
(***************************************************************************)
NAME_SIZE == 256
MAX_SIZE == 256
CLP_APP_MGR_FAILURE == -1
CLP_APP_MGR_SUCCESS == 0
CLP_APP_MGR_OUT_OF_MEMORY == 208
CLP_APP_MGR_DBUS_CALL_FAIL == 209

\* Error codes of the LiMo AMS header <app-manager.h>, which the library
\* includes but which is not part of this repository: only that they are
\* nonzero, distinct, and differ from the -1 the library itself returns is
\* used; the numbers stand for the header's values.
APPMGR_ERROR_APP_ALREADY_RUNNING == -3
APPMGR_ERROR_INTERNAL_TRANSPORT_ERROR == -9

NULL == <<"NULL">>
NULL_CB == "NULL"
DLE == <<"^P">>      \* the control byte 16 used as argument delimiter

CLP_APP_MGR_DBUS_INTERFACE ==
    <<"o","r","g",".","c","l","p",".","a","p","p","m","a","n","a","g","e","r">>
CLP_APP_MGR_DBUS_OBJECT ==
    <<"/","o","r","g","/","c","l","p","/","a","p","p","m","a","n","a","g","e","r">>
CLP_WIN_MGR_DBUS_INTERFACE ==
    <<"o","r","g",".","c","l","p",".","m","a","t","c","h","b","o","x","w","m">>

CLP_APP_MGR_DBUS_SIGNAL_STOP == "stop"
CLP_APP_MGR_DBUS_SIGNAL_EXEC == "exec"
CLP_APP_MGR_DBUS_SIGNAL_ROTATE == "rotate"
CLP_APP_MGR_DBUS_SIGNAL_APPEXIT == "AppExit"
CLP_APP_MGR_DBUS_SIGNAL_MESSAGE == "Message"
CLP_APP_MGR_DBUS_SIGNAL_PAUSE == "pause"
CLP_WIN_MGR_DBUS_SIGNAL_UA_GAINED == "UserInteractionGained"
CLP_WIN_MGR_DBUS_SIGNAL_UA_LOST == "UserInteractionLost"

DBUS_HANDLER_RESULT_HANDLED == "HANDLED"
DBUS_HANDLER_RESULT_NOT_YET_HANDLED == "NOT_YET_HANDLED"
\* The two ways the filter does not return: a fault in message_func, an
\* assertion of libdbus.
SIGSEGV == "SIGSEGV"
SIGABRT == "SIGABRT"

(***************************************************************************)
(* String helpers (glib and libc as the library uses them)                 *)
(***************************************************************************)
SeqsUpTo(S, n) == UNION {[1..k -> S] : k \in 0..n}

\* g_strconcat(a, b, NULL): a NULL argument ends the argument list.
g_strconcat2(a, b) == IF a = NULL THEN NULL ELSE IF b = NULL THEN a ELSE a \o b

\* g_strlcat(dest, src, size): append, keeping at most size-1 characters;
\* a NULL src fails glib's precondition check and leaves dest alone.
g_strlcat(dest, src, size) ==
    IF src = NULL THEN dest
    ELSE LET r == dest \o src
         IN  IF Len(r) <= size - 1 THEN r ELSE SubSeq(r, 1, size - 1)

\* Index of the first occurrence of character c in s, 0 when absent.
FirstIndex(s, c) ==
    IF \E i \in 1..Len(s) : s[i] = c
    THEN CHOOSE i \in 1..Len(s) : s[i] = c /\ \A j \in 1..(i-1) : s[j] # c
    ELSE 0

\* g_strsplit(s, c, 2): at most two pieces, cut at the first c; the vector
\* of the empty string is empty, so that split[0] is NULL.
g_strsplit2(s, c) ==
    IF s = <<>> THEN <<NULL, NULL>>
    ELSE LET i == FirstIndex(s, c)
         IN  IF i = 0 THEN <<s, NULL>>
             ELSE <<SubSeq(s, 1, i - 1), SubSeq(s, i + 1, Len(s))>>

Digit(d) == <<"0","1","2","3","4","5","6","7","8","9">>[d + 1]

RECURSIVE NatToStr(_)
NatToStr(n) == IF n < 10 THEN <<Digit(n)>> ELSE NatToStr(n \div 10) \o <<Digit(n % 10)>>

\* sprintf(buf, "%d", n)
IntToStr(n) == IF n < 0 THEN <<"-">> \o NatToStr(0 - n) ELSE NatToStr(n)

(***************************************************************************)
(* Inputs the model draws from                                             *)
(***************************************************************************)
AppNames == { <<"a">>, <<"b">> }
ArgStrs == { <<"x">>, <<"y">> }
ArgLists == SeqsUpTo(ArgStrs, MaxArgs)
JunkStrs == { <<"#">> }
JunkLists == SeqsUpTo(JunkStrs, MaxJunk)
Handlers == { "h1" }
\* getpid(): the id the system gave this process
getpid == 7
PidValues == { getpid, 9 }
InstIdReplies == { -1, 0, 5 }
ErrorCodeReplies == { 0, APPMGR_ERROR_APP_ALREADY_RUNNING, -2 }

\* Registry contents installed with the applications: /appmgr/<name>/info/AppID
\* (0 for a key that is not there) and /LiMo/System/AppInfo/<id>/AppMultiInstance.
AppIdOf(name) == IF name = <<"a">> THEN 1 ELSE IF name = <<"b">> THEN 2 ELSE 0
AppMultiInstance(app_id) == app_id = 2

\* Further names a process registers under: a single-instance application
\* whose name ends in a digit, and the shortest name with which
\* "org.clp.appmanager." + name no longer fits a MAX_SIZE buffer.
B1 == <<"b", "1">>
LongName == [i \in 1..(MAX_SIZE - Len(CLP_APP_MGR_DBUS_INTERFACE) - 1) |-> "n"]

\* The names the parameter checks are about: "" and a name of NAME_SIZE + 1
\* characters.
TooLongName == [i \in 1..(NAME_SIZE + 1) |-> "n"]
InvalidNames == { <<>>, TooLongName }

\* The applications the registry has a directory /appmgr/<name> for.
RegistryApps == AppNames \cup { B1, LongName, TooLongName }

VARIABLES
    gconf,              \* the configuration registry
    appclient_context,  \* the process-wide ClpAppMgrGlobalInfo
    dbus_interface,     \* static gchar dbus_interface[MAX_SIZE]
    dbus_object,        \* static gchar dbus_object[MAX_SIZE]
    conn,               \* the system-bus connection: match rules and filter
    inits,              \* registrations performed so far
    peer,               \* a second process of the device: its context, static
                        \* buffers, connection and number of registrations
    op,                 \* the last API call and what its environment answered
    calls,              \* daemon method calls the last API call issued
    sent,               \* signals the last API call sent
    ret,                \* result of the last API call
    msg,                \* the last inbound message given to message_func
    invoked,            \* callbacks message_func invoked for it, in order
    result,             \* what message_func returned for it
    heap,               \* the argument strings message_func allocated for it
    tested              \* the slot a dispatch under way has tested, and the
                        \* handler it found there

vars == <<gconf, appclient_context, dbus_interface, dbus_object, conn, inits,
          peer, op, calls, sent, ret, msg, invoked, result, heap, tested>>

(***************************************************************************)
(* Launch Coordinator                                                      *)
(***************************************************************************)
\* What the environment answers during one launch call.
\*   proxy_ok     app_get_dbus_proxy succeeds
\*   call_ok      dbus_g_proxy_call succeeds (the daemon replied)
\*   error_code, inst_id   the daemon's reply
\*   msg_ok       dbus_message_new_signal returns a message
\*   send_ok      dbus_connection_send succeeds
\*   va_shared    the build passes a va_list argument as a reference to the
\*                caller's list (an array type) instead of as a copy of it
\*   junk         the nonzero words that follow the va_list's NULL terminator
\*   stack_inst   the value the uninitialized local inst_id happens to hold
\*   conn_ok      dbus_bus_get succeeds (registration)
EnvDefault ==
    [proxy_ok |-> TRUE, call_ok |-> TRUE, error_code |-> 0, inst_id |-> 1,
     msg_ok |-> TRUE, send_ok |-> TRUE, va_shared |-> FALSE, junk |-> <<>>,
     stack_inst |-> 0, conn_ok |-> TRUE]

LaunchEnvs ==
    { [EnvDefault EXCEPT !.proxy_ok = FALSE, !.stack_inst = i] : i \in {0, 5} }
    \cup { [EnvDefault EXCEPT !.call_ok = FALSE, !.stack_inst = i] : i \in {0, 5} }
    \cup { [EnvDefault EXCEPT !.error_code = e, !.inst_id = i] :
              e \in ErrorCodeReplies, i \in InstIdReplies }
    \cup { [EnvDefault EXCEPT !.error_code = APPMGR_ERROR_APP_ALREADY_RUNNING,
                              !.inst_id = 0, !.msg_ok = m, !.send_ok = s] :
              m \in BOOLEAN, s \in BOOLEAN }
    \cup { [EnvDefault EXCEPT !.error_code = APPMGR_ERROR_APP_ALREADY_RUNNING,
                              !.inst_id = 0, !.msg_ok = m, !.send_ok = s,
                              !.va_shared = TRUE, !.junk = j] :
              m \in BOOLEAN, s \in BOOLEAN, j \in JunkLists }

\* clp_app_mgr_get_app_id: the registry lookup of /appmgr/<appname>/info/AppID.
clp_app_mgr_get_app_id(appname) == AppIdOf(appname)

\* The argument string ClpAppMgrAppLaunchWithArgs builds: NULL without
\* arguments, else the first argument and delim + value for each further one
\* (the first k arguments joined half by half, which gives that same string).
RECURSIVE ArgsJoin(_, _)
ArgsJoin(args, k) ==
    IF k = 1 THEN args[1]
    ELSE LET h == k \div 2
         IN  ArgsJoin(args, h) \o DLE \o ArgsJoin(SubSeq(args, h + 1, k), k - h)

WithArgsString(args) == IF args = <<>> THEN NULL ELSE ArgsJoin(args, Len(args))

\* The argument string ClpAppMgrAppLaunchWithArgv builds: it starts from ""
\* and appends delim + params[i] for every parameter.
RECURSIVE WithArgvString(_, _)
WithArgvString(params, argc) ==
    IF argc = 0 THEN <<>> ELSE WithArgvString(params, argc - 1) \o DLE \o params[argc]

LaunchCall(app_id, argstr) ==
    [method |-> "app_launch_call", app_id |-> app_id, args |-> argstr]

\* The part ClpAppMgrAppLaunchWithArgs and ClpAppMgrAppLaunchWithArgv share
\* once the argument string is built: proxy, call, reply.
LaunchAbortsMutNever(shutdown) == FALSE

\* if (shutdown) return -1;
LaunchAborts(shutdown) == shutdown

LaunchCommon(app_id, argstr, env, shutdown) ==
    IF LaunchAborts(shutdown)
    THEN [rc |-> -1, inst_id |-> env.stack_inst, calls |-> <<>>, consumed |-> FALSE]
    ELSE IF ~env.proxy_ok
    THEN [rc |-> APPMGR_ERROR_INTERNAL_TRANSPORT_ERROR, inst_id |-> env.stack_inst,
          calls |-> <<>>, consumed |-> TRUE]
    ELSE IF ~env.call_ok
    THEN [rc |-> APPMGR_ERROR_INTERNAL_TRANSPORT_ERROR, inst_id |-> env.stack_inst,
          calls |-> <<LaunchCall(app_id, argstr)>>, consumed |-> TRUE]
    ELSE [rc |-> env.error_code, inst_id |-> env.inst_id,
          calls |-> <<LaunchCall(app_id, argstr)>>, consumed |-> TRUE]

ClpAppMgrAppLaunchWithArgs(app_id, va_args, env, shutdown) ==
    LaunchCommon(app_id, WithArgsString(va_args), env, shutdown)

ClpAppMgrAppLaunchWithArgv(app_id, argc, params, env, shutdown) ==
    LaunchCommon(app_id, WithArgvString(params, argc), env, shutdown)

\* The values the caller's own va_arg loop yields after the callee returned.
\* The callee has run va_arg on the same va_list, so the caller's list is
\* indeterminate: where a va_list argument is a copy the caller starts again
\* at the first argument; where it aliases the caller's, the caller goes on
\* behind the NULL terminator and reads whatever words follow it.
VaRest(args, consumed, shared, junk) ==
    IF consumed /\ shared THEN junk ELSE args

\* The exec signal of the AlreadyRunning branch: the count, then the array
\* that starts with the application name.
ExecSignalMutNameLast(application, no_of_params, strs) ==
    [type |-> "signal",
     path |-> g_strconcat2(CLP_APP_MGR_DBUS_OBJECT \o <<"/">>, application),
     iface |-> g_strconcat2(CLP_APP_MGR_DBUS_INTERFACE \o <<".">>, application),
     member |-> CLP_APP_MGR_DBUS_SIGNAL_EXEC,
     n |-> no_of_params, strs |-> Tail(strs) \o <<Head(strs)>>]

ExecSignal(application, no_of_params, strs) ==
    [type |-> "signal",
     path |-> g_strconcat2(CLP_APP_MGR_DBUS_OBJECT \o <<"/">>, application),
     iface |-> g_strconcat2(CLP_APP_MGR_DBUS_INTERFACE \o <<".">>, application),
     member |-> CLP_APP_MGR_DBUS_SIGNAL_EXEC,
     n |-> no_of_params, strs |-> strs]

\* The branch on the launch result that all three variants end with.
LaunchFailedMutStrict(return_code, inst_id) == return_code # 0 \/ inst_id < 0

LaunchFailedMutInverted(return_code, inst_id) == return_code = 0 \/ inst_id <= 0

LaunchFailed(return_code, inst_id) == return_code # 0 \/ inst_id <= 0

ForwardOrFinish(r, application, no_of_params, strs, env) ==
    IF r.rc = APPMGR_ERROR_APP_ALREADY_RUNNING
    THEN IF ~env.msg_ok
         THEN [ret |-> CLP_APP_MGR_DBUS_CALL_FAIL, calls |-> r.calls, sent |-> <<>>]
         ELSE IF ~env.send_ok
         THEN [ret |-> CLP_APP_MGR_OUT_OF_MEMORY, calls |-> r.calls, sent |-> <<>>]
         ELSE [ret |-> CLP_APP_MGR_SUCCESS, calls |-> r.calls,
               sent |-> <<ExecSignal(application, no_of_params, strs)>>]
    ELSE IF LaunchFailed(r.rc, r.inst_id)
    THEN [ret |-> CLP_APP_MGR_FAILURE, calls |-> r.calls, sent |-> <<>>]
    ELSE [ret |-> CLP_APP_MGR_SUCCESS, calls |-> r.calls, sent |-> <<>>]

\* clp_app_mgr_exec(application, a1, ..., aN, NULL)
clp_app_mgr_exec(application, args, env, shutdown) ==
    LET r == ClpAppMgrAppLaunchWithArgs(clp_app_mgr_get_app_id(application),
                                        args, env, shutdown)
        params == VaRest(args, r.consumed, env.va_shared, env.junk)
    IN  ForwardOrFinish(r, application, 1 + Len(params), <<application>> \o params, env)

\* clp_app_mgr_exec_application(application, old_ap)
clp_app_mgr_exec_application(application, args, env, shutdown) ==
    LET r == ClpAppMgrAppLaunchWithArgs(clp_app_mgr_get_app_id(application),
                                        args, env, shutdown)
        params == VaRest(args, r.consumed, env.va_shared, env.junk)
    IN  ForwardOrFinish(r, application, 1 + Len(params), <<application>> \o params, env)

\* clp_app_mgr_exec_argv(application, no_of_params, params_list)
clp_app_mgr_exec_argv(application, params_list, env, shutdown) ==
    LET r == ClpAppMgrAppLaunchWithArgv(clp_app_mgr_get_app_id(application),
                                        Len(params_list), params_list, env, shutdown)
    IN  ForwardOrFinish(r, application, Len(params_list) + 1,
                        <<application>> \o params_list, env)

LaunchVariants == {"exec", "exec_application", "exec_argv"}

LaunchOutcome(variant, application, args, env, shutdown) ==
    CASE variant = "exec" -> clp_app_mgr_exec(application, args, env, shutdown)
      [] variant = "exec_application" ->
             clp_app_mgr_exec_application(application, args, env, shutdown)
      [] variant = "exec_argv" -> clp_app_mgr_exec_argv(application, args, env, shutdown)

(***************************************************************************)
(* Registration Manager                                                    *)
(***************************************************************************)
InitNames == AppNames \cup { <<"a", ".", "x">> }

ZeroContext ==
    [pid |-> 0, app_id |-> 0, inst_id |-> 0, app_name |-> NULL,
     instance_name |-> NULL, bus_conn |-> FALSE, init_done |-> FALSE,
     stop_callback |-> NULL_CB, exec_callback |-> NULL_CB,
     rotate_callback |-> NULL_CB, death_callback |-> NULL_CB,
     app_focus_gained_callback |-> NULL_CB, app_focus_lost_callback |-> NULL_CB,
     message_callback |-> NULL_CB, post_init_callback |-> NULL_CB]

\* "type='signal',interface='" + interface + "'", each append cut at MAX_SIZE
MatchPrefix ==
    <<"t","y","p","e","=","'","s","i","g","n","a","l","'",",",
      "i","n","t","e","r","f","a","c","e","=","'">>

MatchRule(interface) ==
    g_strlcat(g_strlcat(MatchPrefix, interface, MAX_SIZE), <<"'">>, MAX_SIZE)

\* The derivation of clp_app_mgr_init: the application name is the part of
\* name before the first '.', and "." name [instance id] is appended to the
\* static dbus_interface ("/" name [instance id] to dbus_object).
InitAppName(name) == g_strsplit2(name, ".")[1]

InitInterface(iface, sep, app_name, multi, inst_id) ==
    LET named == g_strlcat(g_strlcat(iface, sep, MAX_SIZE), app_name, MAX_SIZE)
    IN  IF multi THEN g_strlcat(named, IntToStr(inst_id), MAX_SIZE) ELSE named

InitInstanceNameMutNoColon(app_name, multi, inst_id) ==
    IF multi THEN g_strconcat2(app_name, IntToStr(inst_id)) ELSE app_name

InitInstanceName(app_name, multi, inst_id) ==
    IF multi THEN g_strconcat2(g_strconcat2(app_name, <<":">>), IntToStr(inst_id))
    ELSE app_name

\* clp_app_mgr_init(name, priority, instance); conn_ok: dbus_bus_get succeeds.
\* The result is the new values of everything the call writes.
clp_app_mgr_init(name, conn_ok, ctx, iface, object, registry, bus, pid) ==
    LET app_name == InitAppName(name)
        app_id == AppIdOf(app_name)
        inst_id == IF app_name \in DOMAIN registry.LastInstId
                   THEN registry.LastInstId[app_name] ELSE 0
        multi == AppMultiInstance(app_id)
        iface1 == InitInterface(iface, <<".">>, app_name, multi, inst_id)
        object1 == InitInterface(object, <<"/">>, app_name, multi, inst_id)
        named == [ctx EXCEPT !.app_name = app_name, !.pid = pid,
                             !.app_id = app_id, !.inst_id = inst_id,
                             !.instance_name = InitInstanceName(app_name, multi, inst_id)]
        \* with app_name NULL the key path is "/appmgr/", which is no key
        registry1 == IF app_name \in DOMAIN registry.PID
                     THEN [registry EXCEPT !.PID[app_name] = pid] ELSE registry
    IN  IF ~conn_ok
        THEN [ret |-> CLP_APP_MGR_DBUS_CALL_FAIL, ctx |-> named, iface |-> iface1,
              object |-> object1, registry |-> registry1, bus |-> bus]
        ELSE [ret |-> CLP_APP_MGR_SUCCESS,
              ctx |-> [named EXCEPT !.bus_conn = TRUE, !.init_done = TRUE,
                          !.stop_callback = NULL_CB, !.exec_callback = NULL_CB,
                          !.rotate_callback = NULL_CB, !.death_callback = NULL_CB,
                          !.app_focus_gained_callback = NULL_CB,
                          !.app_focus_lost_callback = NULL_CB,
                          !.message_callback = NULL_CB],
              iface |-> iface1, object |-> object1, registry |-> registry1,
              bus |-> [matches |-> bus.matches \cup
                                     { MatchRule(iface1),
                                       MatchRule(CLP_APP_MGR_DBUS_INTERFACE),
                                       MatchRule(CLP_WIN_MGR_DBUS_INTERFACE) },
                       filter |-> TRUE]]

\* clp_app_mgr_async_init(name, priority, instance, post_init_handler): the
\* handler is stored, clp_app_mgr_init is called and its result dropped, and
\* the stored handler, when there is one, is called with NULL.
clp_app_mgr_async_init_MutChecksFirst(name, post_init_handler, conn_ok, ctx, iface, object, registry, bus, pid) ==
    LET ctx0 == [ctx EXCEPT !.post_init_callback = post_init_handler]
        r == clp_app_mgr_init(name, conn_ok, ctx0, iface, object, registry, bus, pid)
    IN  IF post_init_handler = NULL_CB
        THEN [ret |-> CLP_APP_MGR_FAILURE, ctx |-> ctx0, iface |-> iface,
              object |-> object, registry |-> registry, bus |-> bus,
              invoked |-> <<>>]
        ELSE [ret |-> CLP_APP_MGR_SUCCESS, ctx |-> r.ctx, iface |-> r.iface,
              object |-> r.object, registry |-> r.registry, bus |-> r.bus,
              invoked |-> << [slot |-> "post_init", handler |-> post_init_handler,
                              n |-> 0, strs |-> <<NULL>>] >>]

clp_app_mgr_async_init(name, post_init_handler, conn_ok, ctx, iface, object, registry, bus, pid) ==
    LET ctx0 == [ctx EXCEPT !.post_init_callback = post_init_handler]
        r == clp_app_mgr_init(name, conn_ok, ctx0, iface, object, registry, bus, pid)
    IN  [ret |-> IF r.ctx.post_init_callback # NULL_CB
                 THEN CLP_APP_MGR_SUCCESS ELSE CLP_APP_MGR_FAILURE,
         ctx |-> r.ctx, iface |-> r.iface, object |-> r.object,
         registry |-> r.registry, bus |-> r.bus,
         invoked |-> IF r.ctx.post_init_callback # NULL_CB
                     THEN << [slot |-> "post_init",
                              handler |-> r.ctx.post_init_callback,
                              n |-> 0, strs |-> <<NULL>>] >>
                     ELSE <<>>]

(***************************************************************************)
(* Messaging Channel and power-off                                         *)
(***************************************************************************)
\* The address clp_app_mgr_send_message and clp_app_mgr_stop rebuild from an
\* instance name: prefix, split[0], split[1] (g_strconcat stops at a NULL).
TargetAddress(prefix, application) ==
    LET split == g_strsplit2(application, ":")
    IN  g_strconcat2(g_strconcat2(prefix, split[1]), split[2])

\* no_of_param of clp_app_mgr_send_message: it starts at 1 and is incremented
\* for every argument taken from the va_list.
MessageCountMutArgsOnly(args) == Len(args)

MessageCount(args) == 1 + Len(args)

\* clp_app_mgr_send_message(application, ap); the result of
\* dbus_connection_send is not looked at.
clp_app_mgr_send_message(application, args, env, ctx) ==
    IF ~env.msg_ok
    THEN [ret |-> CLP_APP_MGR_DBUS_CALL_FAIL, sent |-> <<>>]
    ELSE [ret |-> CLP_APP_MGR_SUCCESS,
          sent |-> IF ctx.bus_conn /\ env.send_ok
                   THEN << [type |-> "signal",
                            path |-> TargetAddress(CLP_APP_MGR_DBUS_OBJECT \o <<"/">>,
                                                   application),
                            iface |-> TargetAddress(CLP_APP_MGR_DBUS_INTERFACE \o <<".">>,
                                                    application),
                            member |-> CLP_APP_MGR_DBUS_SIGNAL_MESSAGE,
                            n |-> MessageCount(args),
                            strs |-> <<application>> \o args] >>
                   ELSE <<>>]

\* clp_app_mgr_stop(app): the stop signal goes out on a connection the call
\* gets itself; dbus_connection_send on no connection sends nothing.
clp_app_mgr_stop(app, env) ==
    IF ~env.msg_ok THEN [ret |-> CLP_APP_MGR_DBUS_CALL_FAIL, sent |-> <<>>]
    ELSE IF ~(env.conn_ok /\ env.send_ok)
    THEN [ret |-> CLP_APP_MGR_OUT_OF_MEMORY, sent |-> <<>>]
    ELSE [ret |-> CLP_APP_MGR_SUCCESS,
          sent |-> << [type |-> "signal",
                       path |-> TargetAddress(CLP_APP_MGR_DBUS_OBJECT \o <<"/">>, app),
                       iface |-> TargetAddress(CLP_APP_MGR_DBUS_INTERFACE \o <<".">>, app),
                       member |-> CLP_APP_MGR_DBUS_SIGNAL_STOP,
                       n |-> 0, strs |-> <<>>] >>]

\* clp_app_mgr_power_off(): FALSE (0) when the stop signal could not be made
\* or sent, CLP_APP_MGR_FAILURE after it was sent.
clp_app_mgr_power_off_MutPause(env, ctx) ==
    IF ~env.msg_ok THEN [ret |-> 0, sent |-> <<>>]
    ELSE IF ~(ctx.bus_conn /\ env.send_ok) THEN [ret |-> 0, sent |-> <<>>]
    ELSE [ret |-> CLP_APP_MGR_FAILURE,
          sent |-> << [type |-> "signal", path |-> CLP_APP_MGR_DBUS_OBJECT,
                       iface |-> CLP_APP_MGR_DBUS_INTERFACE,
                       member |-> CLP_APP_MGR_DBUS_SIGNAL_PAUSE,
                       n |-> 0, strs |-> <<>>] >>]

clp_app_mgr_power_off(env, ctx) ==
    IF ~env.msg_ok THEN [ret |-> 0, sent |-> <<>>]
    ELSE IF ~(ctx.bus_conn /\ env.send_ok) THEN [ret |-> 0, sent |-> <<>>]
    ELSE [ret |-> CLP_APP_MGR_FAILURE,
          sent |-> << [type |-> "signal", path |-> CLP_APP_MGR_DBUS_OBJECT,
                       iface |-> CLP_APP_MGR_DBUS_INTERFACE,
                       member |-> CLP_APP_MGR_DBUS_SIGNAL_STOP,
                       n |-> 0, strs |-> <<>>] >>]

(***************************************************************************)
(* Dispatch Engine                                                         *)
(***************************************************************************)
dbus_message_is_signal(m, interface, member) ==
    m.type = "signal" /\ m.iface = interface /\ m.member = member

Call(slot, handler, n, strs) ==
    [slot |-> slot, handler |-> handler, n |-> n, strs |-> strs]

\* The callback call guarded by its NULL test.
IfSetMutAlways(slot, handler, n, strs) == <<Call(slot, handler, n, strs)>>

IfSet(slot, handler, n, strs) ==
    IF handler # NULL_CB THEN <<Call(slot, handler, n, strs)>> ELSE <<>>

\* The strings the exec and Message rules copy out of the array: the first
\* no_of_param elements, from element 0 on.
DecodedMutSkipFirst(m) ==
    SubSeq(m.strs, 2, IF m.n + 1 <= Len(m.strs) THEN m.n + 1 ELSE Len(m.strs))

\* temp after dbus_message_iter_get_basic at the array's end: the call
\* writes nothing, temp keeps the element read last, NULL when none was.
Stale(strs) == IF strs = <<>> THEN NULL ELSE strs[Len(strs)]

Decoded(m) ==
    [i \in 1..m.n |-> IF i <= Len(m.strs) THEN m.strs[i] ELSE Stale(m.strs)]

\* The first statement of message_func: stop on the own interface.
OwnStopMutAnyInterface(m, ctx, iface) ==
    IF m.type = "signal" /\ m.member = CLP_APP_MGR_DBUS_SIGNAL_STOP
    THEN IfSet("stop", ctx.stop_callback, 0, <<>>) ELSE <<>>

OwnStopMutPrefix(m, ctx, iface) ==
    IF m.type = "signal" /\ m.member = CLP_APP_MGR_DBUS_SIGNAL_STOP
       /\ Len(m.iface) >= Len(CLP_APP_MGR_DBUS_INTERFACE)
       /\ SubSeq(m.iface, 1, Len(CLP_APP_MGR_DBUS_INTERFACE)) = CLP_APP_MGR_DBUS_INTERFACE
    THEN IfSet("stop", ctx.stop_callback, 0, <<>>) ELSE <<>>

OwnStop(m, ctx, iface) ==
    IF dbus_message_is_signal(m, iface, CLP_APP_MGR_DBUS_SIGNAL_STOP)
    THEN IfSet("stop", ctx.stop_callback, 0, <<>>) ELSE <<>>

\* The test both focus rules make on the payload.
FocusIsMineMutAlways(payload_pid, pid) == TRUE

FocusIsMine(payload_pid, pid) == payload_pid = pid

\* The body of the rotate rule: a comment, no statement.
RotateRuleMutCalls(ctx) == IfSet("rotate", ctx.rotate_callback, 0, <<>>)

RotateRule(ctx) == <<>>

\* The body of the AppExit rule: (death_callback)(NULL, process_id) under
\* the NULL test of the slot.  The call's string list holds the one string
\* argument, which is NULL.
AppExitRuleMutOwnPid(ctx, process_id) ==
    IfSet("death", ctx.death_callback, ctx.pid, <<NULL>>)

AppExitRule(ctx, process_id) ==
    IfSet("death", ctx.death_callback, process_id, <<NULL>>)

\* The if / else-if chain that follows it and decides the result.
RuleChain(m, ctx, iface, pid) ==
    IF dbus_message_is_signal(m, CLP_APP_MGR_DBUS_INTERFACE, CLP_APP_MGR_DBUS_SIGNAL_STOP)
    THEN [invoked |-> IfSet("stop", ctx.stop_callback, 0, <<>>),
          result |-> DBUS_HANDLER_RESULT_HANDLED]
    ELSE IF dbus_message_is_signal(m, CLP_WIN_MGR_DBUS_INTERFACE,
                                   CLP_WIN_MGR_DBUS_SIGNAL_UA_GAINED)
    THEN [invoked |-> IF FocusIsMine(m.n, pid)
                      THEN IfSet("focus_gained", ctx.app_focus_gained_callback, 0, <<>>)
                      ELSE <<>>,
          result |-> DBUS_HANDLER_RESULT_HANDLED]
    ELSE IF dbus_message_is_signal(m, CLP_WIN_MGR_DBUS_INTERFACE,
                                   CLP_WIN_MGR_DBUS_SIGNAL_UA_LOST)
    THEN [invoked |-> IF FocusIsMine(m.n, pid)
                      THEN IfSet("focus_lost", ctx.app_focus_lost_callback, 0, <<>>)
                      ELSE <<>>,
          result |-> DBUS_HANDLER_RESULT_HANDLED]
    ELSE IF dbus_message_is_signal(m, CLP_APP_MGR_DBUS_INTERFACE,
                                   CLP_APP_MGR_DBUS_SIGNAL_ROTATE)
    THEN [invoked |-> RotateRule(ctx), result |-> DBUS_HANDLER_RESULT_HANDLED]
    ELSE IF dbus_message_is_signal(m, iface, CLP_APP_MGR_DBUS_SIGNAL_EXEC)
    THEN IF ctx.exec_callback = NULL_CB
         THEN [invoked |-> <<>>, result |-> DBUS_HANDLER_RESULT_HANDLED]
         ELSE IF m.n = 0
         \* g_malloc0(0) is NULL: the "Out Of Memory" return
         THEN [invoked |-> <<>>, result |-> DBUS_HANDLER_RESULT_NOT_YET_HANDLED]
         ELSE IF m.strs = <<>>
         \* strlen(temp) with temp still NULL
         THEN [invoked |-> <<>>, result |-> SIGSEGV]
         ELSE [invoked |-> <<Call("exec", ctx.exec_callback, m.n, Decoded(m))>>,
               result |-> DBUS_HANDLER_RESULT_HANDLED]
    ELSE IF dbus_message_is_signal(m, CLP_APP_MGR_DBUS_INTERFACE,
                                   CLP_APP_MGR_DBUS_SIGNAL_APPEXIT)
    THEN [invoked |-> AppExitRule(ctx, m.n),
          result |-> DBUS_HANDLER_RESULT_HANDLED]
    ELSE IF dbus_message_is_signal(m, iface, CLP_APP_MGR_DBUS_SIGNAL_MESSAGE)
    THEN [invoked |-> IfSet("message", ctx.message_callback, m.n, Decoded(m)),
          result |-> DBUS_HANDLER_RESULT_HANDLED]
    ELSE [invoked |-> <<>>, result |-> DBUS_HANDLER_RESULT_NOT_YET_HANDLED]

\* message_func(bus_conn, msg, user_data)
message_func(m, ctx, iface, pid) ==
    LET chain == RuleChain(m, ctx, iface, pid)
    IN  [invoked |-> OwnStop(m, ctx, iface) \o chain.invoked, result |-> chain.result]

\* The exec and Message loops call dbus_message_iter_get_basic past the last
\* element of the array when the count exceeds the array.
ReadsPastArray(m, ctx, iface) ==
    /\ m.n > Len(m.strs)
    /\ \/ dbus_message_is_signal(m, iface, CLP_APP_MGR_DBUS_SIGNAL_EXEC)
             /\ ctx.exec_callback # NULL_CB
       \/ dbus_message_is_signal(m, iface, CLP_APP_MGR_DBUS_SIGNAL_MESSAGE)
             /\ ctx.message_callback # NULL_CB

\* message_func linked against a libdbus built with or without its
\* assertions: with them the read past the array aborts the process,
\* without them it writes nothing.
message_func_linked(asserts, m, ctx, iface, pid) ==
    IF asserts /\ ReadsPastArray(m, ctx, iface)
    THEN [invoked |-> <<>>, result |-> SIGABRT]
    ELSE message_func(m, ctx, iface, pid)

\* The rule of message_func that copies the array of m into buffers: the
\* exec or the Message rule with its slot set, and a count other than 0.
Decoding(m, ctx, iface) ==
    IF dbus_message_is_signal(m, iface, CLP_APP_MGR_DBUS_SIGNAL_EXEC)
       /\ ctx.exec_callback # NULL_CB /\ m.n # 0
    THEN "exec"
    ELSE IF dbus_message_is_signal(m, iface, CLP_APP_MGR_DBUS_SIGNAL_MESSAGE)
            /\ ctx.message_callback # NULL_CB /\ m.n # 0
    THEN "message"
    ELSE "none"

\* for (i = 0; i < no_of_param; i++) g_free(list[i]): the buffers left.
FreeLoop(no_of_param, buffers) == buffers \ (1..no_of_param)

\* The argument strings of one run of message_func, by their index in the
\* list: those allocated, those live while the callback runs, those live
\* when message_func ends.  cut is the pass of the copy loop in which the
\* process ends, 0 when the loop completes.  The exec rule allocates a
\* buffer in every pass; g_strdup of the Message rule allocates none for NULL.
NoHeap == [allocated |-> {}, at_call |-> {}, live |-> {}]

Buffers(m, ctx, iface, cut) ==
    LET rule == Decoding(m, ctx, iface)
        passes == IF cut = 0 THEN 1..m.n ELSE 1..(cut - 1)
        a == IF rule = "exec" THEN passes
             ELSE { i \in passes : Decoded(m)[i] # NULL }
    IN  IF rule = "none" THEN NoHeap
        ELSE IF cut = 0
        THEN [allocated |-> a, at_call |-> a, live |-> FreeLoop(m.n, a)]
        ELSE [allocated |-> a, at_call |-> {}, live |-> a]

\* The pass in which strlen(NULL) ends the exec rule.
FaultPass(m, ctx, iface) ==
    IF Decoding(m, ctx, iface) = "exec" /\ m.strs = <<>> THEN 1 ELSE 0

(***************************************************************************)
(* Inbound traffic the dispatcher is given                                 *)
(***************************************************************************)
OtherInterface == CLP_APP_MGR_DBUS_INTERFACE \o <<".", "z">>
AppX == <<"a", "p", "p", "X">>
ExampleArray == <<AppX, <<"a">>, <<"b">>>>

Interfaces(own) ==
    { own, CLP_APP_MGR_DBUS_INTERFACE, CLP_WIN_MGR_DBUS_INTERFACE, OtherInterface }

Message(type, iface, member, n, strs) ==
    [type |-> type, path |-> <<"/">>, iface |-> iface, member |-> member,
     n |-> n, strs |-> strs]

\* (count, string array) payloads: every prefix of the example array with
\* every count that does not exceed the array.
CountPayloads ==
    { <<n, SubSeq(ExampleArray, 1, k)>> : n \in 0..Len(ExampleArray),
                                          k \in 0..Len(ExampleArray) }

InboundMessages(own) ==
    { Message(t, i, m, 0, <<>>) :
        t \in {"signal", "method_call"}, i \in Interfaces(own),
        m \in { CLP_APP_MGR_DBUS_SIGNAL_STOP, CLP_APP_MGR_DBUS_SIGNAL_ROTATE,
                CLP_APP_MGR_DBUS_SIGNAL_PAUSE } }
    \cup { Message("signal", i, m, p, <<>>) :
        i \in Interfaces(own), p \in PidValues,
        m \in { CLP_WIN_MGR_DBUS_SIGNAL_UA_GAINED, CLP_WIN_MGR_DBUS_SIGNAL_UA_LOST,
                CLP_APP_MGR_DBUS_SIGNAL_APPEXIT } }
    \cup { Message("signal", i, m, c[1], c[2]) :
        i \in Interfaces(own),
        m \in { CLP_APP_MGR_DBUS_SIGNAL_EXEC, CLP_APP_MGR_DBUS_SIGNAL_MESSAGE },
        c \in { d \in CountPayloads : d[1] <= Len(d[2]) } }

\* exec and Message signals on the own interface whose count exceeds
\* their array.
MalformedMessages(own) ==
    { Message("signal", own, m, c[1], c[2]) :
        m \in { CLP_APP_MGR_DBUS_SIGNAL_EXEC, CLP_APP_MGR_DBUS_SIGNAL_MESSAGE },
        c \in { d \in CountPayloads : d[1] > Len(d[2]) } }

NoMessage == Message("none", <<>>, "none", 0, <<>>)

\* No dispatch is between the test of a slot and the call.
NoTest == [slot |-> "none", handler |-> NULL_CB]

NoOp == [name |-> "none", application |-> <<>>, args |-> <<>>,
         env |-> EnvDefault, shutdown |-> FALSE, slot |-> "none", handler |-> NULL_CB]

(***************************************************************************)
(* The state machine                                                       *)
(***************************************************************************)
Init ==
    /\ gconf = [Shutdown |-> FALSE,
                LastInstId |-> [a \in RegistryApps |-> 0],
                PID |-> [a \in RegistryApps |-> 0]]
    /\ appclient_context = ZeroContext
    /\ dbus_interface = CLP_APP_MGR_DBUS_INTERFACE
    /\ dbus_object = CLP_APP_MGR_DBUS_OBJECT
    /\ conn = [matches |-> {}, filter |-> FALSE]
    /\ inits = 0
    /\ peer = [ctx |-> ZeroContext, iface |-> CLP_APP_MGR_DBUS_INTERFACE,
               object |-> CLP_APP_MGR_DBUS_OBJECT,
               bus |-> [matches |-> {}, filter |-> FALSE], inits |-> 0,
               msg |-> NoMessage, invoked |-> <<>>]
    /\ op = NoOp
    /\ calls = <<>>
    /\ sent = <<>>
    /\ ret = 0
    /\ msg = NoMessage
    /\ invoked = <<>>
    /\ result = "none"
    /\ heap = NoHeap
    /\ tested = NoTest

NoDispatch ==
    /\ msg' = NoMessage /\ invoked' = <<>> /\ result' = "none"
    /\ heap' = NoHeap /\ tested' = NoTest

\* op, calls, sent, ret, msg, invoked and result record one step for the
\* observer: a step is taken when the record is clear, and Observe clears it.
Idle == op = NoOp /\ msg = NoMessage

Observe ==
    /\ ~Idle
    /\ op' = NoOp
    /\ calls' = <<>>
    /\ sent' = <<>>
    /\ ret' = 0
    /\ NoDispatch
    /\ UNCHANGED <<gconf, appclient_context, dbus_interface, dbus_object, conn,
                   inits, peer>>

LaunchWith(variant, names, arglists, envs) ==
    /\ Idle
    /\ \E application \in names, args \in arglists, env \in envs :
        LET o == LaunchOutcome(variant, application, args, env, gconf.Shutdown)
        IN  /\ op' = [NoOp EXCEPT !.name = variant, !.application = application,
                                  !.args = args, !.env = env,
                                  !.shutdown = gconf.Shutdown]
            /\ calls' = o.calls
            /\ sent' = o.sent
            /\ ret' = o.ret
            /\ NoDispatch
            /\ UNCHANGED <<gconf, appclient_context, dbus_interface,
                           dbus_object, conn, inits, peer>>

LaunchOf(variant, names, envs) == LaunchWith(variant, names, ArgLists, envs)

Launch(variant, envs) == LaunchOf(variant, AppNames, envs)

Exec == Launch("exec", LaunchEnvs)

ExecApplication == Launch("exec_application", LaunchEnvs)

ExecArgv == Launch("exec_argv", LaunchEnvs)

SignalEnvs == { [EnvDefault EXCEPT !.msg_ok = m, !.send_ok = s] :
                   m \in BOOLEAN, s \in BOOLEAN }

PowerOffMutFlagAfterSend ==
    /\ Idle
    /\ \E env \in SignalEnvs :
        LET o == clp_app_mgr_power_off(env, appclient_context)
        IN  /\ gconf' = [gconf EXCEPT !.Shutdown = @ \/ o.sent # <<>>]
            /\ op' = [NoOp EXCEPT !.name = "power_off", !.env = env,
                                  !.shutdown = gconf.Shutdown]
            /\ calls' = <<>>
            /\ sent' = o.sent
            /\ ret' = o.ret
            /\ NoDispatch
            /\ UNCHANGED <<appclient_context, dbus_interface, dbus_object,
                           conn, inits, peer>>

PowerOff ==
    /\ Idle
    /\ \E env \in SignalEnvs :
        LET o == clp_app_mgr_power_off(env, appclient_context)
        IN  /\ gconf' = [gconf EXCEPT !.Shutdown = TRUE]
            /\ op' = [NoOp EXCEPT !.name = "power_off", !.env = env,
                                  !.shutdown = gconf.Shutdown]
            /\ calls' = <<>>
            /\ sent' = o.sent
            /\ ret' = o.ret
            /\ NoDispatch
            /\ UNCHANGED <<appclient_context, dbus_interface, dbus_object,
                           conn, inits, peer>>

\* The names a message can be sent to: instance names of both kinds.
AppY3 == <<"a","p","p","Y",":","3">>
Ping == <<"p","i","n","g">>

InstanceNames ==
    AppNames \cup { a \o <<":">> \o IntToStr(k) : a \in AppNames, k \in 0..1 }
             \cup { AppY3 }

MessageArgLists == ArgLists \cup { <<Ping>> }

SendMessageTo(names, arglists, envs) ==
    /\ Idle
    /\ \E application \in names, args \in arglists, env \in envs :
        LET o == clp_app_mgr_send_message(application, args, env, appclient_context)
        IN  /\ op' = [NoOp EXCEPT !.name = "send_message",
                                  !.application = application, !.args = args,
                                  !.env = env, !.shutdown = gconf.Shutdown]
            /\ calls' = <<>>
            /\ sent' = o.sent
            /\ ret' = o.ret
            /\ NoDispatch
            /\ UNCHANGED <<gconf, appclient_context, dbus_interface,
                           dbus_object, conn, inits, peer>>

SendMessage == SendMessageTo(InstanceNames, MessageArgLists, SignalEnvs)

\* This process calls clp_app_mgr_init(name, ...).
RegisterAsMutKeepsStop(name, conn_ok) ==
    LET r == clp_app_mgr_init(name, conn_ok, appclient_context, dbus_interface,
                              dbus_object, gconf, conn, getpid)
    IN  /\ appclient_context' =
              [r.ctx EXCEPT !.stop_callback = appclient_context.stop_callback]
        /\ dbus_interface' = r.iface
        /\ dbus_object' = r.object
        /\ gconf' = r.registry
        /\ conn' = r.bus
        /\ inits' = inits + 1
        /\ op' = [NoOp EXCEPT !.name = "init", !.application = name,
                              !.env = [EnvDefault EXCEPT !.conn_ok = conn_ok],
                              !.shutdown = gconf.Shutdown]
        /\ calls' = <<>>
        /\ sent' = <<>>
        /\ ret' = r.ret
        /\ NoDispatch
        /\ UNCHANGED peer

RegisterAs(name, conn_ok) ==
    LET r == clp_app_mgr_init(name, conn_ok, appclient_context, dbus_interface,
                              dbus_object, gconf, conn, getpid)
    IN  /\ appclient_context' = r.ctx
        /\ dbus_interface' = r.iface
        /\ dbus_object' = r.object
        /\ gconf' = r.registry
        /\ conn' = r.bus
        /\ inits' = inits + 1
        /\ op' = [NoOp EXCEPT !.name = "init", !.application = name,
                              !.env = [EnvDefault EXCEPT !.conn_ok = conn_ok],
                              !.shutdown = gconf.Shutdown]
        /\ calls' = <<>>
        /\ sent' = <<>>
        /\ ret' = r.ret
        /\ NoDispatch
        /\ UNCHANGED peer

ClpAppMgrInit ==
    /\ Idle
    /\ inits < MaxInits
    /\ \E name \in InitNames, conn_ok \in BOOLEAN : RegisterAs(name, conn_ok)

\* This process calls clp_app_mgr_async_init(name, ..., post_init_handler).
ClpAppMgrAsyncInit ==
    /\ Idle
    /\ inits < MaxInits
    /\ \E name \in InitNames, conn_ok \in BOOLEAN, h \in Handlers \cup {NULL_CB} :
        LET r == clp_app_mgr_async_init(name, h, conn_ok, appclient_context,
                                        dbus_interface, dbus_object, gconf, conn,
                                        getpid)
        IN  /\ appclient_context' = r.ctx
            /\ dbus_interface' = r.iface
            /\ dbus_object' = r.object
            /\ gconf' = r.registry
            /\ conn' = r.bus
            /\ inits' = inits + 1
            /\ op' = [NoOp EXCEPT !.name = "async_init", !.application = name,
                                  !.env = [EnvDefault EXCEPT !.conn_ok = conn_ok],
                                  !.shutdown = gconf.Shutdown, !.handler = h]
            /\ calls' = <<>>
            /\ sent' = <<>>
            /\ ret' = r.ret
            /\ msg' = NoMessage
            /\ invoked' = r.invoked
            /\ result' = "none"
            /\ heap' = NoHeap
            /\ tested' = NoTest
            /\ UNCHANGED peer

\* The names of the address derivation: with a '.'-suffix, ending in a
\* digit, and too long for the static buffers.
AddressNames == InitNames \cup { B1, LongName }

ClpAppMgrInitAny ==
    /\ Idle
    /\ inits < MaxInits
    /\ \E name \in AddressNames, conn_ok \in BOOLEAN : RegisterAs(name, conn_ok)

\* The second process calls clp_app_mgr_init(name, ...): the same code on
\* that process's context, static buffers and connection, and on the one
\* registry of the device.
peer_pid == CHOOSE p \in PidValues : p # getpid

PeerRegisterAs(name, conn_ok) ==
    LET r == clp_app_mgr_init(name, conn_ok, peer.ctx, peer.iface, peer.object,
                              gconf, peer.bus, peer_pid)
    IN  /\ peer' = [peer EXCEPT !.ctx = r.ctx, !.iface = r.iface,
                                 !.object = r.object, !.bus = r.bus,
                                 !.inits = peer.inits + 1]
        /\ gconf' = r.registry
        /\ op' = [NoOp EXCEPT !.name = "peer_init", !.application = name,
                              !.env = [EnvDefault EXCEPT !.conn_ok = conn_ok],
                              !.shutdown = gconf.Shutdown]
        /\ calls' = <<>>
        /\ sent' = <<>>
        /\ ret' = r.ret
        /\ NoDispatch
        /\ UNCHANGED <<appclient_context, dbus_interface, dbus_object, conn, inits>>

\* The second process registers, once, and registers a stop handler.
PeerInit ==
    /\ Idle
    /\ peer.inits = 0
    /\ \E name \in AppNames, conn_ok \in BOOLEAN : PeerRegisterAs(name, conn_ok)

PeerRegisterStopHandler ==
    /\ Idle
    /\ \E h \in Handlers \cup {NULL_CB} :
        /\ peer' = [peer EXCEPT !.ctx.stop_callback = h]
        /\ op' = [NoOp EXCEPT !.name = "peer_register",
                              !.slot = "stop_callback", !.handler = h]
        /\ calls' = <<>>
        /\ sent' = <<>>
        /\ ret' = 0
        /\ NoDispatch
        /\ UNCHANGED <<gconf, appclient_context, dbus_interface, dbus_object,
                       conn, inits>>

\* The bus hands the signal the last call sent to the second process's
\* filter, which it does when a match rule of that process names the
\* signal's interface.
PeerDeliverable ==
    /\ peer.msg = NoMessage
    /\ peer.bus.filter
    /\ sent # <<>>
    /\ MatchRule(sent[1].iface) \in peer.bus.matches

PeerDeliver ==
    /\ PeerDeliverable
    /\ peer' = [peer EXCEPT
                  !.msg = sent[1],
                  !.invoked = message_func(sent[1], peer.ctx, peer.iface,
                                           peer_pid).invoked]
    /\ UNCHANGED <<gconf, appclient_context, dbus_interface, dbus_object, conn,
                   inits, op, calls, sent, ret, msg, invoked, result, heap,
                   tested>>

\* The Application-Manager daemon launches one more instance of an
\* application and moves the application's LastInstId key on.
DaemonLaunch ==
    /\ Idle
    /\ \E app \in AppNames :
        /\ gconf.LastInstId[app] < MaxInstId
        /\ gconf' = [gconf EXCEPT !.LastInstId[app] = @ + 1]
    /\ UNCHANGED <<appclient_context, dbus_interface, dbus_object, conn, inits,
                   peer, op, calls, sent, ret, msg, invoked, result, heap,
                   tested>>

\* The k-th instance the daemon launched of an application exists, and can
\* run clp_app_mgr_init, once LastInstId has been moved on k times.
FirstInstanceInit ==
    /\ Idle
    /\ inits = 0
    /\ \E name \in AppNames, conn_ok \in BOOLEAN :
        /\ gconf.LastInstId[name] >= 1
        /\ RegisterAs(name, conn_ok)

SecondInstanceInit ==
    /\ Idle
    /\ peer.inits = 0
    /\ \E name \in AppNames, conn_ok \in BOOLEAN :
        /\ gconf.LastInstId[name] >= 2
        /\ PeerRegisterAs(name, conn_ok)

\* The instance names the registrations of AddressNames produce.
AddressTargets ==
    { InitInstanceName(InitAppName(n), AppMultiInstance(AppIdOf(InitAppName(n))), k) :
        n \in AddressNames, k \in 0..MaxInstId }

SendMessageToInstance ==
    SendMessageTo(AddressTargets, { <<>>, <<Ping>> }, { EnvDefault })

StopEnvs == { EnvDefault, [EnvDefault EXCEPT !.msg_ok = FALSE],
              [EnvDefault EXCEPT !.send_ok = FALSE],
              [EnvDefault EXCEPT !.conn_ok = FALSE] }

Stop ==
    /\ Idle
    /\ \E app \in AddressTargets, env \in StopEnvs :
        LET o == clp_app_mgr_stop(app, env)
        IN  /\ op' = [NoOp EXCEPT !.name = "stop", !.application = app, !.env = env,
                                  !.shutdown = gconf.Shutdown]
            /\ calls' = <<>>
            /\ sent' = o.sent
            /\ ret' = o.ret
            /\ NoDispatch
            /\ UNCHANGED <<gconf, appclient_context, dbus_interface,
                           dbus_object, conn, inits, peer>>

\* The handler-registration calls: one assignment to one slot.
RegisterHandlerFromMutKeepFirst(slot, handlers) ==
    /\ Idle
    /\ \E h \in handlers :
        /\ appclient_context' =
              IF appclient_context[slot] = NULL_CB
              THEN [appclient_context EXCEPT ![slot] = h]
              ELSE appclient_context
        /\ op' = [NoOp EXCEPT !.name = "register", !.slot = slot, !.handler = h]
        /\ calls' = <<>>
        /\ sent' = <<>>
        /\ ret' = 0
        /\ NoDispatch
        /\ UNCHANGED <<gconf, dbus_interface, dbus_object, conn, inits, peer>>

RegisterHandlerFrom(slot, handlers) ==
    /\ Idle
    /\ \E h \in handlers :
        /\ appclient_context' = [appclient_context EXCEPT ![slot] = h]
        /\ op' = [NoOp EXCEPT !.name = "register", !.slot = slot, !.handler = h]
        /\ calls' = <<>>
        /\ sent' = <<>>
        /\ ret' = 0
        /\ NoDispatch
        /\ UNCHANGED <<gconf, dbus_interface, dbus_object, conn, inits, peer>>

RegisterHandler(slot) == RegisterHandlerFrom(slot, Handlers \cup {NULL_CB})

\* The same calls made with either of two handlers.
TwoHandlers == {"h1", "h2", NULL_CB}

RegisterStopHandlerAgain == RegisterHandlerFrom("stop_callback", TwoHandlers)

RegisterExecHandlerAgain == RegisterHandlerFrom("exec_callback", TwoHandlers)

RegisterMessageHandlerAgain == RegisterHandlerFrom("message_callback", TwoHandlers)

RegisterDeathHandler == RegisterHandler("death_callback")

RegisterStopHandler == RegisterHandler("stop_callback")

RegisterRotateHandler == RegisterHandler("rotate_callback")

RegisterExecHandler == RegisterHandler("exec_callback")

RegisterMessageHandler == RegisterHandler("message_callback")

RegisterFocusGainedHandler == RegisterHandler("app_focus_gained_callback")

RegisterFocusLostHandler == RegisterHandler("app_focus_lost_callback")

\* One run of the connection's filter on an inbound message m.
Filter(m) ==
    LET r == message_func(m, appclient_context, dbus_interface, getpid)
    IN  /\ msg' = m
        /\ invoked' = r.invoked
        /\ result' = r.result
        /\ heap' = Buffers(m, appclient_context, dbus_interface,
                           FaultPass(m, appclient_context, dbus_interface))
        /\ tested' = NoTest
        /\ UNCHANGED <<gconf, appclient_context, dbus_interface, dbus_object,
                       conn, inits, peer, op, calls, sent, ret>>

\* Any inbound message reaches the installed filter.
Dispatch ==
    /\ Idle
    /\ conn.filter
    /\ \E m \in InboundMessages(dbus_interface) : Filter(m)

\* A signal whose count exceeds its array reaches the installed filter.
DispatchMalformed ==
    /\ Idle
    /\ conn.filter
    /\ \E m \in MalformedMessages(dbus_interface), asserts \in BOOLEAN :
        LET r == message_func_linked(asserts, m, appclient_context,
                                     dbus_interface, getpid)
        IN  /\ msg' = m
            /\ invoked' = r.invoked
            /\ result' = r.result
            /\ heap' = Buffers(m, appclient_context, dbus_interface,
                  IF asserts /\ ReadsPastArray(m, appclient_context, dbus_interface)
                  THEN Len(m.strs) + 1
                  ELSE FaultPass(m, appclient_context, dbus_interface))
            /\ tested' = NoTest
            /\ UNCHANGED <<gconf, appclient_context, dbus_interface, dbus_object,
                           conn, inits, peer, op, calls, sent, ret>>

\* g_malloc0 or g_strdup finds no memory in pass k of the copy loop of the
\* exec or the Message rule: glib ends the program there.
DispatchOutOfMemory ==
    /\ Idle
    /\ conn.filter
    /\ \E m \in InboundMessages(dbus_interface) :
        /\ Decoding(m, appclient_context, dbus_interface) # "none"
        /\ \E k \in 1..m.n :
            /\ msg' = m
            /\ invoked' = <<>>
            /\ result' = SIGABRT
            /\ heap' = Buffers(m, appclient_context, dbus_interface, k)
            /\ tested' = NoTest
            /\ UNCHANGED <<gconf, appclient_context, dbus_interface, dbus_object,
                           conn, inits, peer, op, calls, sent, ret>>

\* message_func taken in two steps, the test of the slot and the call, with
\* a handler-registration call of another thread between them.
IN_FLIGHT == "IN_FLIGHT"

RaceMessages(own) ==
    { Message("signal", CLP_APP_MGR_DBUS_INTERFACE, CLP_APP_MGR_DBUS_SIGNAL_STOP,
              0, <<>>),
      Message("signal", own, CLP_APP_MGR_DBUS_SIGNAL_EXEC, 1, <<AppX>>) }

\* if (appclient_context.<slot> != NULL)
TestSlot ==
    /\ Idle
    /\ conn.filter
    /\ \E m \in RaceMessages(dbus_interface) :
        LET slot == IF m.member = CLP_APP_MGR_DBUS_SIGNAL_STOP
                    THEN "stop_callback" ELSE "exec_callback"
            h == appclient_context[slot]
        IN  /\ msg' = m
            /\ invoked' = <<>>
            /\ heap' = NoHeap
            /\ tested' = [slot |-> slot, handler |-> h]
            /\ result' = IF h = NULL_CB THEN DBUS_HANDLER_RESULT_HANDLED
                          ELSE IN_FLIGHT
    /\ UNCHANGED <<gconf, appclient_context, dbus_interface, dbus_object, conn,
                   inits, peer, op, calls, sent, ret>>

\* appclient_context.<slot> = callback, from another thread.
RacingRegister ==
    /\ result = IN_FLIGHT
    /\ op = NoOp
    /\ \E slot \in {"stop_callback", "exec_callback"}, h \in TwoHandlers :
        /\ appclient_context' = [appclient_context EXCEPT ![slot] = h]
        /\ op' = [NoOp EXCEPT !.name = "register", !.slot = slot, !.handler = h]
    /\ UNCHANGED <<gconf, dbus_interface, dbus_object, conn, inits, peer, calls,
                   sent, ret, msg, invoked, result, heap, tested>>

\* (appclient_context.<slot>)(...): the stop rules have nothing between the
\* test and the call, so the compiled code calls either the value it tested
\* or the value it reads again; the exec rule calls library functions in
\* between and reads the slot again.  A call through NULL ends the process.
CallSlot ==
    /\ result = IN_FLIGHT
    /\ \E reload \in (IF tested.slot = "exec_callback" THEN {TRUE} ELSE BOOLEAN) :
        LET h == IF reload THEN appclient_context[tested.slot] ELSE tested.handler
            exec == tested.slot = "exec_callback"
            copied == IF exec THEN 1..msg.n ELSE {}
        IN  IF h = NULL_CB
            THEN /\ invoked' = <<>>
                 /\ result' = SIGSEGV
                 /\ heap' = [allocated |-> copied, at_call |-> copied,
                             live |-> copied]
            ELSE /\ invoked' = << IF exec
                                  THEN Call("exec", h, msg.n, Decoded(msg))
                                  ELSE Call("stop", h, 0, <<>>) >>
                 /\ result' = DBUS_HANDLER_RESULT_HANDLED
                 /\ heap' = [allocated |-> copied, at_call |-> copied,
                             live |-> FreeLoop(msg.n, copied)]
    /\ UNCHANGED <<gconf, appclient_context, dbus_interface, dbus_object, conn,
                   inits, peer, op, calls, sent, ret, msg, tested>>

ObserveReturned == result # IN_FLIGHT /\ Observe

\* The bus hands the signal the last call sent to this process's filter,
\* which it does when one of the process's match rules names its interface.
Deliverable ==
    /\ msg = NoMessage
    /\ conn.filter
    /\ sent # <<>>
    /\ MatchRule(sent[1].iface) \in conn.matches

Deliver ==
    /\ Deliverable
    /\ Filter(sent[1])

\* The record of one step of the two processes is cleared once the bus has
\* delivered what the step sent.
ObserveDelivered ==
    /\ ~Idle
    /\ ~Deliverable
    /\ ~PeerDeliverable
    /\ op' = NoOp
    /\ calls' = <<>>
    /\ sent' = <<>>
    /\ ret' = 0
    /\ NoDispatch
    /\ peer' = [peer EXCEPT !.msg = NoMessage, !.invoked = <<>>]
    /\ UNCHANGED <<gconf, appclient_context, dbus_interface, dbus_object, conn,
                   inits>>

NextLaunch == Exec \/ ExecApplication \/ ExecArgv \/ PowerOff \/ Observe

SpecLaunch == Init /\ [][NextLaunch]_vars

NextDispatch ==
    \/ ClpAppMgrInit
    \/ RegisterDeathHandler
    \/ RegisterStopHandler
    \/ RegisterRotateHandler
    \/ RegisterExecHandler
    \/ RegisterMessageHandler
    \/ RegisterFocusGainedHandler
    \/ RegisterFocusLostHandler
    \/ Dispatch
    \/ Observe

SpecDispatch == Init /\ [][NextDispatch]_vars

\* The launch calls the daemon answers AlreadyRunning, the signal made and sent.
ForwardEnvs ==
    { e \in LaunchEnvs : e.error_code = APPMGR_ERROR_APP_ALREADY_RUNNING
                         /\ e.msg_ok /\ e.send_ok }

ForwardExec == Launch("exec", ForwardEnvs)

ForwardExecApplication == Launch("exec_application", ForwardEnvs)

ForwardExecArgv == Launch("exec_argv", ForwardEnvs)

NextRoundTrip ==
    \/ ClpAppMgrInit
    \/ RegisterExecHandler
    \/ RegisterMessageHandler
    \/ ForwardExec
    \/ ForwardExecApplication
    \/ ForwardExecArgv
    \/ SendMessage
    \/ Deliver
    \/ Observe

SpecRoundTrip == Init /\ [][NextRoundTrip]_vars

NextSend ==
    \/ ClpAppMgrInit
    \/ Exec
    \/ ExecApplication
    \/ ExecArgv
    \/ SendMessage
    \/ Observe

SpecSend == Init /\ [][NextSend]_vars

\* The launch calls the daemon would answer with a new instance or with
\* AlreadyRunning.
AnsweredEnvs ==
    { EnvDefault,
      [EnvDefault EXCEPT !.error_code = APPMGR_ERROR_APP_ALREADY_RUNNING,
                         !.inst_id = 0] }

AnsweredExec == Launch("exec", AnsweredEnvs)

AnsweredExecApplication == Launch("exec_application", AnsweredEnvs)

AnsweredExecArgv == Launch("exec_argv", AnsweredEnvs)

NextShutdown ==
    \/ ClpAppMgrInit
    \/ PeerInit
    \/ AnsweredExec
    \/ AnsweredExecApplication
    \/ AnsweredExecArgv
    \/ PowerOff
    \/ Observe

SpecShutdown == Init /\ [][NextShutdown]_vars

NextRace ==
    \/ ClpAppMgrInit
    \/ RegisterStopHandlerAgain
    \/ RegisterExecHandlerAgain
    \/ TestSlot
    \/ RacingRegister
    \/ CallSlot
    \/ ObserveReturned

SpecRace == Init /\ [][NextRace]_vars

NextHeap ==
    \/ ClpAppMgrInit
    \/ RegisterExecHandler
    \/ RegisterMessageHandler
    \/ Dispatch
    \/ DispatchMalformed
    \/ DispatchOutOfMemory
    \/ Observe

SpecHeap == Init /\ [][NextHeap]_vars

NextPowerOff ==
    \/ ClpAppMgrInit
    \/ PeerInit
    \/ RegisterStopHandler
    \/ PeerRegisterStopHandler
    \/ PowerOff
    \/ Deliver
    \/ PeerDeliver
    \/ ObserveDelivered

\* The bus delivers and the dispatchers run: a delivery that stays possible
\* is made.
SpecPowerOff ==
    Init /\ [][NextPowerOff]_vars /\ WF_vars(Deliver) /\ WF_vars(PeerDeliver)

NextSlots ==
    \/ ClpAppMgrInit
    \/ RegisterStopHandlerAgain
    \/ RegisterExecHandlerAgain
    \/ RegisterMessageHandlerAgain
    \/ Dispatch
    \/ Observe

SpecSlots == Init /\ [][NextSlots]_vars

NextMalformed ==
    \/ ClpAppMgrInit
    \/ RegisterExecHandler
    \/ RegisterMessageHandler
    \/ DispatchMalformed
    \/ Observe

SpecMalformed == Init /\ [][NextMalformed]_vars

NextAsync ==
    \/ ClpAppMgrAsyncInit
    \/ ClpAppMgrInit
    \/ RegisterStopHandler
    \/ Dispatch
    \/ Observe

SpecAsync == Init /\ [][NextAsync]_vars

NextAddress ==
    \/ ClpAppMgrInitAny
    \/ DaemonLaunch
    \/ RegisterStopHandler
    \/ RegisterMessageHandler
    \/ SendMessageToInstance
    \/ Stop
    \/ Deliver
    \/ Observe

SpecAddress == Init /\ [][NextAddress]_vars

\* Calls with a name the parameter checks are about.  libdbus refuses to
\* make a signal for an interface with an empty element or of more than 255
\* characters, so the signals these calls ask for are never made.
InvalidLaunchEnvs ==
    { e \in LaunchEnvs :
        e.error_code = APPMGR_ERROR_APP_ALREADY_RUNNING => ~e.msg_ok }

InvalidSignalEnvs == { e \in SignalEnvs : ~e.msg_ok }

ClpAppMgrInitInvalid ==
    /\ Idle
    /\ inits < MaxInits
    /\ \E name \in InvalidNames, conn_ok \in BOOLEAN : RegisterAs(name, conn_ok)

ExecInvalid == LaunchOf("exec", InvalidNames, InvalidLaunchEnvs)

ExecApplicationInvalid == LaunchOf("exec_application", InvalidNames, InvalidLaunchEnvs)

ExecArgvInvalid == LaunchOf("exec_argv", InvalidNames, InvalidLaunchEnvs)

SendMessageInvalid == SendMessageTo(InvalidNames, MessageArgLists, InvalidSignalEnvs)

NextValidation ==
    \/ ClpAppMgrInit
    \/ ClpAppMgrInitInvalid
    \/ ExecInvalid
    \/ ExecApplicationInvalid
    \/ ExecArgvInvalid
    \/ SendMessageInvalid
    \/ Observe

SpecValidation == Init /\ [][NextValidation]_vars

NextInstances ==
    \/ DaemonLaunch
    \/ FirstInstanceInit
    \/ SecondInstanceInit
    \/ Observe

SpecInstances == Init /\ [][NextInstances]_vars

(***************************************************************************)
(* Properties                                                              *)
(***************************************************************************)
IsLaunch == op.name \in LaunchVariants

\* The launch call reached the daemon and the daemon replied.
Replied == IsLaunch /\ ~op.shutdown /\ op.env.proxy_ok /\ op.env.call_ok

RepliedAlreadyRunning ==
    Replied /\ op.env.error_code = APPMGR_ERROR_APP_ALREADY_RUNNING

RepliedLaunched == Replied /\ op.env.error_code = 0 /\ op.env.inst_id > 0

\* C1: when the daemon answers AlreadyRunning (and the signal can be made and
\* sent), every launch variant sends exactly one exec signal, addressed to
\* the interface and object path derived from the target, with payload
\* (N+1, [target, a1, ..., aN]).
C1_ExecSignalPayload ==
    (RepliedAlreadyRunning /\ op.env.msg_ok /\ op.env.send_ok) =>
        /\ Len(sent) = 1
        /\ sent[1].type = "signal"
        /\ sent[1].member = "exec"
        /\ sent[1].iface = CLP_APP_MGR_DBUS_INTERFACE \o <<".">> \o op.application
        /\ sent[1].path = CLP_APP_MGR_DBUS_OBJECT \o <<"/">> \o op.application
        /\ sent[1].n = Len(op.args) + 1
        /\ sent[1].strs = <<op.application>> \o op.args

\* C2: with the registry shutdown flag set, a launch call of any variant
\* returns a failure result, issues no daemon call and sends no signal.
C2_ShutdownNoTraffic ==
    (IsLaunch /\ op.shutdown) =>
        (ret # CLP_APP_MGR_SUCCESS /\ calls = <<>> /\ sent = <<>>)

C2_Witness ==
    /\ op.name = "exec" /\ op.shutdown /\ op.args # <<>>
    /\ op.env.error_code = APPMGR_ERROR_APP_ALREADY_RUNNING
    /\ ret = CLP_APP_MGR_FAILURE

\* C3: a daemon reply of error code 0 with a positive instance id makes
\* launch send no signal and return success.
C3_ColdLaunchSucceeds ==
    RepliedLaunched => (sent = <<>> /\ ret = CLP_APP_MGR_SUCCESS)

C3_Witness ==
    /\ op.name = "exec_argv" /\ RepliedLaunched /\ op.env.inst_id = 5
    /\ Len(calls) = 1 /\ ret = CLP_APP_MGR_SUCCESS

\* C4: a launch whose daemon call failed in transport, or whose reply is
\* neither AlreadyRunning nor (0, positive instance id), returns
\* CLP_APP_MGR_FAILURE and sends no signal; launch returns success only after
\* a cold launch with a positive instance id or after sending the exec signal.
C4_OtherRepliesFail ==
    /\ (IsLaunch /\ ~op.shutdown /\ ~RepliedAlreadyRunning /\ ~RepliedLaunched) =>
           (ret = CLP_APP_MGR_FAILURE /\ sent = <<>>)
    /\ (IsLaunch /\ ret = CLP_APP_MGR_SUCCESS) =>
           \/ (RepliedLaunched /\ sent = <<>>)
           \/ (RepliedAlreadyRunning /\ Len(sent) = 1 /\ sent[1].member = "exec")

C4_Witness ==
    /\ op.name = "exec" /\ Replied /\ op.env.error_code = 0 /\ op.env.inst_id = 0
    /\ ret = CLP_APP_MGR_FAILURE /\ sent = <<>>

\* C5: for the same target, arguments, registry state and daemon reply, the
\* three launch variants issue the same daemon call, send the same signal
\* (or none) and return the same result.
C5_VariantsEquivalent ==
    IsLaunch =>
        \A v \in LaunchVariants :
            LaunchOutcome(v, op.application, op.args, op.env, op.shutdown)
                = [ret |-> ret, calls |-> calls, sent |-> sent]

IsOwnExec == dbus_message_is_signal(msg, dbus_interface, CLP_APP_MGR_DBUS_SIGNAL_EXEC)

\* C6 as claimed: an exec signal on the own interface with payload
\* (count, [dest, a1, ...]) invokes the exec callback once with
\* (count, [a1, ...]): the leading destination name is not passed.
C6_ArgZeroDropped ==
    (IsOwnExec /\ appclient_context.exec_callback # NULL_CB
        /\ msg.n >= 1 /\ msg.n + 1 <= Len(msg.strs)) =>
        invoked = << Call("exec", appclient_context.exec_callback, msg.n,
                          SubSeq(msg.strs, 2, msg.n + 1)) >>

\* C6 as amended: an exec signal on the own interface with count c,
\* 1 <= c <= array length, invokes the registered exec callback exactly once
\* with (c, the first c array elements), the destination name included as
\* params[0]; (2, ["appX","a","b"]) gives (2, ["appX","a"]).
C6_ExecCallbackArgs ==
    /\ (IsOwnExec /\ appclient_context.exec_callback # NULL_CB
          /\ msg.n >= 1 /\ msg.n <= Len(msg.strs)) =>
          /\ invoked = << Call("exec", appclient_context.exec_callback, msg.n,
                               SubSeq(msg.strs, 1, msg.n)) >>
          /\ invoked[1].strs[1] = msg.strs[1]
    /\ (IsOwnExec /\ appclient_context.exec_callback # NULL_CB
          /\ msg.n = 2 /\ msg.strs = ExampleArray) =>
          (Len(invoked) = 1 /\ invoked[1].n = 2 /\ invoked[1].strs = <<AppX, <<"a">>>>)

C6_Witness ==
    /\ IsOwnExec /\ msg.n = 2 /\ msg.strs = ExampleArray
    /\ Len(invoked) = 1 /\ invoked[1].slot = "exec"
    /\ invoked[1].strs = <<AppX, <<"a">>>>

\* The signal the last send made has been given to the filter and a decoding
\* callback was invoked for it.
RoundTripDone ==
    /\ op.name \in LaunchVariants \cup {"send_message"}
    /\ sent # <<>> /\ msg = sent[1]
    /\ invoked # <<>>

\* C7 as claimed: the list the receiver's callback is handed is exactly the
\* sender's argument list.
C7_RoundTripExact ==
    RoundTripDone => (Len(invoked) = 1 /\ invoked[1].strs = op.args)

\* C7 as amended: for clp_app_mgr_exec_argv in the AlreadyRunning branch and
\* for clp_app_mgr_send_message, the callback is handed count N+1 and the
\* destination name followed by the sender's N arguments in order.
C7_RoundTripWithArgZero ==
    (RoundTripDone /\ op.name \in {"exec_argv", "send_message"}) =>
        /\ Len(invoked) = 1
        /\ invoked[1].slot = (IF op.name = "send_message" THEN "message" ELSE "exec")
        /\ invoked[1].n = Len(op.args) + 1
        /\ invoked[1].strs = <<op.application>> \o op.args
        /\ Tail(invoked[1].strs) = op.args

C7_Witness ==
    /\ RoundTripDone /\ op.name = "send_message" /\ Len(op.args) = MaxArgs
    /\ invoked[1].slot = "message" /\ Tail(invoked[1].strs) = op.args

\* The (interface, member) pairs of the dispatch table.
TableRows(own) ==
    { <<own, CLP_APP_MGR_DBUS_SIGNAL_STOP>>,
      <<CLP_APP_MGR_DBUS_INTERFACE, CLP_APP_MGR_DBUS_SIGNAL_STOP>>,
      <<CLP_WIN_MGR_DBUS_INTERFACE, CLP_WIN_MGR_DBUS_SIGNAL_UA_GAINED>>,
      <<CLP_WIN_MGR_DBUS_INTERFACE, CLP_WIN_MGR_DBUS_SIGNAL_UA_LOST>>,
      <<CLP_APP_MGR_DBUS_INTERFACE, CLP_APP_MGR_DBUS_SIGNAL_ROTATE>>,
      <<own, CLP_APP_MGR_DBUS_SIGNAL_EXEC>>,
      <<CLP_APP_MGR_DBUS_INTERFACE, CLP_APP_MGR_DBUS_SIGNAL_APPEXIT>>,
      <<own, CLP_APP_MGR_DBUS_SIGNAL_MESSAGE>> }

Dispatched == msg # NoMessage

\* C8: an inbound message whose (interface, member) is in no row of the
\* dispatch table is reported unhandled and invokes no callback.
C8_UnmatchedUnhandled ==
    (Dispatched /\ <<msg.iface, msg.member>> \notin TableRows(dbus_interface)) =>
        (result = DBUS_HANDLER_RESULT_NOT_YET_HANDLED /\ invoked = <<>>)

C8_Witness ==
    /\ Dispatched /\ msg.type = "signal"
    /\ msg.iface = OtherInterface /\ msg.member = CLP_APP_MGR_DBUS_SIGNAL_STOP
    /\ appclient_context.stop_callback # NULL_CB
    /\ appclient_context.exec_callback # NULL_CB
    /\ result = DBUS_HANDLER_RESULT_NOT_YET_HANDLED

IsStopOn(interface) ==
    dbus_message_is_signal(msg, interface, CLP_APP_MGR_DBUS_SIGNAL_STOP)

StopCalls == { i \in DOMAIN invoked : invoked[i].slot = "stop" }

IsFocus(member) == dbus_message_is_signal(msg, CLP_WIN_MGR_DBUS_INTERFACE, member)

\* C10: a focus-gained (focus-lost) signal on the window-manager interface
\* invokes the focusGained (focusLost) callback if and only if its payload
\* pid is the receiving process's id; with another pid no callback is invoked.
C10_FocusOnlyOwnPid ==
    /\ IsFocus(CLP_WIN_MGR_DBUS_SIGNAL_UA_GAINED) =>
          invoked = IF msg.n = getpid
                    THEN IfSet("focus_gained",
                               appclient_context.app_focus_gained_callback, 0, <<>>)
                    ELSE <<>>
    /\ IsFocus(CLP_WIN_MGR_DBUS_SIGNAL_UA_LOST) =>
          invoked = IF msg.n = getpid
                    THEN IfSet("focus_lost",
                               appclient_context.app_focus_lost_callback, 0, <<>>)
                    ELSE <<>>

C10_Witness ==
    /\ IsFocus(CLP_WIN_MGR_DBUS_SIGNAL_UA_GAINED) /\ msg.n = getpid
    /\ Len(invoked) = 1 /\ invoked[1].slot = "focus_gained"

IsAppExit ==
    dbus_message_is_signal(msg, CLP_APP_MGR_DBUS_INTERFACE, CLP_APP_MGR_DBUS_SIGNAL_APPEXIT)

\* C11: an AppExit signal on the app-manager interface with payload pid p
\* invokes the registered death callback exactly once, with (NULL, p), and
\* invokes no other callback (none at all when no death handler is set).
C11_DeathCallback ==
    IsAppExit =>
        invoked = IF appclient_context.death_callback # NULL_CB
                  THEN << Call("death", appclient_context.death_callback,
                               msg.n, <<NULL>>) >>
                  ELSE <<>>

C11_Witness ==
    /\ IsAppExit /\ msg.n # getpid
    /\ appclient_context.stop_callback # NULL_CB
    /\ appclient_context.exec_callback # NULL_CB
    /\ Len(invoked) = 1 /\ invoked[1].slot = "death" /\ invoked[1].n = msg.n

IsRotate ==
    dbus_message_is_signal(msg, CLP_APP_MGR_DBUS_INTERFACE, CLP_APP_MGR_DBUS_SIGNAL_ROTATE)

DeriveInterface(name, multi, k) ==
    CLP_APP_MGR_DBUS_INTERFACE \o <<".">> \o name \o (IF multi THEN IntToStr(k) ELSE <<>>)

DeriveObject(name, multi, k) ==
    CLP_APP_MGR_DBUS_OBJECT \o <<"/">> \o name \o (IF multi THEN IntToStr(k) ELSE <<>>)

\* send_message was called, the signal could be made, and the process holds
\* a bus connection on which the send succeeds.
SentMessage ==
    /\ op.name = "send_message" /\ op.env.msg_ok /\ op.env.send_ok
    /\ appclient_context.bus_conn

\* The address part of C13: the one signal has member Message and goes to
\* the interface and object path derived from the target instance name.
MessageAddressed ==
    /\ Len(sent) = 1
    /\ sent[1].type = "signal"
    /\ sent[1].member = "Message"
    /\ \A name \in AppNames \cup { <<"a","p","p","Y">> }, k \in 0..3 :
          op.application = name \o <<":">> \o IntToStr(k) =>
              /\ sent[1].iface = DeriveInterface(name, TRUE, k)
              /\ sent[1].path = DeriveObject(name, TRUE, k)
    /\ op.application \in AppNames =>
              /\ sent[1].iface = DeriveInterface(op.application, FALSE, 0)
              /\ sent[1].path = DeriveObject(op.application, FALSE, 0)

\* C13 as claimed: the count field is the number of caller-supplied message
\* arguments, the array the target instance name followed by the arguments;
\* sendMessage("appY:3", ["ping"]) carries (1, ["appY:3", "ping"]).
C13_CountIsArgCount ==
    SentMessage =>
        /\ MessageAddressed
        /\ sent[1].n = Len(op.args)
        /\ sent[1].strs = <<op.application>> \o op.args
        /\ (op.application = AppY3 /\ op.args = <<Ping>>) =>
              (sent[1].n = 1 /\ sent[1].strs = <<AppY3, Ping>>)

\* C13 as amended: the count field is the number of caller-supplied message
\* arguments plus one (the length of the array, target name included);
\* sendMessage("appY:3", ["ping"]) carries (2, ["appY:3", "ping"]).
C13_CountIsArrayLength ==
    SentMessage =>
        /\ MessageAddressed
        /\ sent[1].n = Len(op.args) + 1
        /\ sent[1].n = Len(sent[1].strs)
        /\ sent[1].strs = <<op.application>> \o op.args
        /\ (op.application = AppY3 /\ op.args = <<Ping>>) =>
              /\ sent[1].n = 2 /\ sent[1].strs = <<AppY3, Ping>>
              /\ sent[1].iface = DeriveInterface(<<"a","p","p","Y">>, TRUE, 3)

C13_Witness ==
    /\ SentMessage /\ op.application = AppY3 /\ op.args = <<Ping>>
    /\ Len(sent) = 1 /\ sent[1].n = 2

\* A stop or Message signal was sent to the instance name this process
\* registered under.
SentToSelf ==
    /\ op.name \in {"send_message", "stop"} /\ sent # <<>>
    /\ inits >= 1
    /\ op.application = appclient_context.instance_name

\* C14: the interface and object path send_message and clp_app_mgr_stop
\* rebuild from an instance name are the interface and object path the
\* registration of that instance derived.
C14_AddressesAgree ==
    SentToSelf => (sent[1].iface = dbus_interface /\ sent[1].path = dbus_object)

Registered == op.name = "init"

\* p is name with its '.'-separated suffix removed.
IsNameBeforeDot(p, name) ==
    \E i \in 0..Len(name) :
        /\ p = SubSeq(name, 1, i)
        /\ \A j \in 1..i : name[j] # "."
        /\ i = Len(name) \/ name[i + 1] = "."

\* C15: after clp_app_mgr_init(name) the application name is name up to its
\* first '.', and the instance name is the application name for a
\* single-instance application and application name ":" instance id for a
\* multi-instance one, the id being the registry's LastInstId.
C15_InstanceName ==
    Registered =>
        LET c == appclient_context
        IN  /\ IsNameBeforeDot(c.app_name, op.application)
            /\ c.inst_id = gconf.LastInstId[c.app_name]
            /\ c.instance_name =
                  IF AppMultiInstance(AppIdOf(c.app_name))
                  THEN c.app_name \o <<":">> \o IntToStr(c.inst_id)
                  ELSE c.app_name

C15_Witness ==
    /\ Registered /\ inits = MaxInits /\ op.application = <<"b">>
    /\ appclient_context.inst_id = MaxInstId
    /\ appclient_context.instance_name = <<"b", ":">> \o IntToStr(MaxInstId)

\* C16: the interface and object path a registration leaves are the ones
\* derived from (application name, multi-instance flag, instance id) alone,
\* however many registrations the process performed before.
C16_DerivationIdempotent ==
    Registered =>
        LET c == appclient_context
            multi == AppMultiInstance(c.app_id)
        IN  /\ dbus_interface = InitInterface(CLP_APP_MGR_DBUS_INTERFACE, <<".">>,
                                              c.app_name, multi, c.inst_id)
            /\ dbus_object = InitInterface(CLP_APP_MGR_DBUS_OBJECT, <<"/">>,
                                           c.app_name, multi, c.inst_id)

\* C19: a clp_app_mgr_init during which the bus connection cannot be opened
\* returns a failure, installs no match rule and no filter, and leaves the
\* registration context and the derived interface and object path as they
\* were before the call.
C19_AllOrNothing ==
    [][(op'.name = "init" /\ ~op'.env.conn_ok /\ op.name # "init") =>
          /\ ret' # CLP_APP_MGR_SUCCESS
          /\ conn' = conn
          /\ appclient_context' = appclient_context
          /\ dbus_interface' = dbus_interface
          /\ dbus_object' = dbus_object]_vars

\* Both processes have registered, as instances of one multi-instance
\* application.
SameAppTwice ==
    /\ inits = 1 /\ peer.inits = 1
    /\ appclient_context.app_name = peer.ctx.app_name
    /\ AppMultiInstance(appclient_context.app_id)

\* C17: two running instances of one multi-instance application have,
\* however the daemon's launches and the two clp_app_mgr_init calls
\* interleave, different instance ids, instance names and interfaces.
C17_InstancesDiffer ==
    SameAppTwice =>
        /\ appclient_context.inst_id # peer.ctx.inst_id
        /\ appclient_context.instance_name # peer.ctx.instance_name
        /\ dbus_interface # peer.iface

\* A stop or Message signal was sent to an instance name other than the one
\* this process, registered once, has.
SentToOther ==
    /\ op.name \in {"send_message", "stop"} /\ sent # <<>>
    /\ inits = 1
    /\ op.application # appclient_context.instance_name

\* C18: the interface derived for one identity differs from the interface
\* derived for any other, so that a signal addressed to another instance
\* does not carry this process's interface and, once given to this
\* process's dispatcher, matches none of its own-interface rules.
C18_AddressIdentifiesInstance ==
    SentToOther =>
        /\ sent[1].iface # dbus_interface
        /\ msg = sent[1] => invoked = <<>>

InvalidCall(o) ==
    /\ o.name \in LaunchVariants \cup {"send_message", "init"}
    /\ o.application \in InvalidNames

\* C20: clp_app_mgr_init, the launch variants and send_message, called with
\* an empty name or a name of more than NAME_SIZE bytes, return a failure
\* and have no side effect: no daemon call, no signal, no write to the
\* registration context, the derived strings, the connection or the registry.
C20_ValidationFirst ==
    [][(InvalidCall(op') /\ ~InvalidCall(op)) =>
          /\ ret' # CLP_APP_MGR_SUCCESS
          /\ calls' = <<>>
          /\ sent' = <<>>
          /\ UNCHANGED <<gconf, appclient_context, dbus_interface, dbus_object,
                         conn>>]_vars

\* C21: a launch call of any variant, or a send_message call, made in a
\* process in which no registration has completed returns a failure, issues
\* no daemon call and sends no signal.
C21_FailFastUnregistered ==
    (op.name \in LaunchVariants \cup {"send_message"}
        /\ ~appclient_context.init_done) =>
        (ret # CLP_APP_MGR_SUCCESS /\ calls = <<>> /\ sent = <<>>)

C23_AsyncFailsWithInit ==
    /\ (op.name = "async_init" /\ ~op.env.conn_ok) =>
          (ret # CLP_APP_MGR_SUCCESS /\ invoked = <<>>)
    /\ (op.name = "async_init" /\ invoked # <<>>) =>
          (op.env.conn_ok /\ appclient_context.init_done)

\* C24: a signal on the own interface whose count exceeds its array is
\* reported DBUS_HANDLER_RESULT_NOT_YET_HANDLED (so the filter returns: no
\* crash, no abort) and no callback is called.
C24_MalformedUnhandled ==
    (msg # NoMessage /\ msg.n > Len(msg.strs)) =>
        (result = DBUS_HANDLER_RESULT_NOT_YET_HANDLED /\ invoked = <<>>)

\* C25: when dbus_connection_send fails for the exec signal of a launch or
\* for the Message signal of send_message, the call returns a value other
\* than CLP_APP_MGR_SUCCESS, and nothing was sent (no second attempt).
C25_SendFailureReported ==
    /\ (RepliedAlreadyRunning /\ op.env.msg_ok /\ ~op.env.send_ok) =>
          (ret # CLP_APP_MGR_SUCCESS /\ sent = <<>>)
    /\ (op.name = "send_message" /\ appclient_context.bus_conn
            /\ op.env.msg_ok /\ ~op.env.send_ok) =>
          (ret # CLP_APP_MGR_SUCCESS /\ sent = <<>>)

\* The launch half of C25 alone.
LaunchSendFailureReported ==
    (RepliedAlreadyRunning /\ op.env.msg_ok /\ ~op.env.send_ok) =>
        (ret = CLP_APP_MGR_OUT_OF_MEMORY /\ sent = <<>>)

\* The slots of the context and the slot a callback call was made from.
Slots ==
    { "stop_callback", "exec_callback", "rotate_callback", "death_callback",
      "app_focus_gained_callback", "app_focus_lost_callback", "message_callback" }

SlotOfCall(c) ==
    CASE c.slot = "stop" -> "stop_callback"
      [] c.slot = "exec" -> "exec_callback"
      [] c.slot = "rotate" -> "rotate_callback"
      [] c.slot = "death" -> "death_callback"
      [] c.slot = "focus_gained" -> "app_focus_gained_callback"
      [] c.slot = "focus_lost" -> "app_focus_lost_callback"
      [] c.slot = "message" -> "message_callback"
      [] OTHER -> "post_init_callback"

\* C26: a handler-registration call stores its handler in its own slot and
\* changes nothing else (no other slot, no identity field of the context, no
\* derived string, nothing of the connection or the registry); a slot
\* changes only in a registration call for that slot or when clp_app_mgr_init
\* clears it; and every callback a dispatch calls is the handler its slot
\* holds, which is therefore the one registered last.
C26_LastRegistrationWins ==
    [][/\ (op'.name = "register" /\ op.name = "none") =>
            /\ appclient_context' =
                  [appclient_context EXCEPT ![op'.slot] = op'.handler]
            /\ UNCHANGED <<gconf, dbus_interface, dbus_object, conn>>
       /\ \A slot \in Slots :
            appclient_context'[slot] # appclient_context[slot] =>
                \/ op'.name = "register" /\ op'.slot = slot
                \/ op'.name = "init" /\ appclient_context'[slot] = NULL_CB
       /\ \A i \in DOMAIN invoked' :
            /\ invoked'[i].handler # NULL_CB
            /\ invoked'[i].handler = appclient_context'[SlotOfCall(invoked'[i])]]_vars

C26_Witness ==
    /\ msg # NoMessage
    /\ Len(invoked) = 1
    /\ invoked[1].slot = "message" /\ invoked[1].handler = "h2"
    /\ appclient_context.exec_callback = "h1"
    /\ appclient_context.stop_callback = NULL_CB

\* C27: a Message signal sent to the instance name this registered process
\* reports carries this process's interface, for which a match rule is
\* installed, and once delivered calls the registered message handler
\* exactly once; a Message signal sent to any other instance name calls no
\* handler of this process.
C27_MessageEndToEnd ==
    LET sending == /\ op.name = "send_message" /\ sent # <<>>
                   /\ appclient_context.init_done
    IN  /\ (sending /\ op.application = appclient_context.instance_name) =>
              /\ sent[1].iface = dbus_interface
              /\ MatchRule(dbus_interface) \in conn.matches
              /\ (msg = sent[1] /\ appclient_context.message_callback # NULL_CB) =>
                    /\ Len(invoked) = 1
                    /\ invoked[1].slot = "message"
        /\ (sending /\ op.application # appclient_context.instance_name
                /\ msg = sent[1]) =>
              invoked = <<>>

\* A launch answered AlreadyRunning sent its exec signal, and its target is
\* the application name this registered process reports.
ForwardedToSelf ==
    /\ IsLaunch /\ sent # <<>>
    /\ appclient_context.init_done
    /\ op.application = appclient_context.app_name

\* C28: the exec signal of a launch whose target is the application name
\* of this registered process carries this process's interface, for which a
\* match rule is installed, and once delivered calls the registered exec
\* handler once.
C28_ExecEndToEnd ==
    ForwardedToSelf =>
        /\ sent[1].iface = dbus_interface
        /\ MatchRule(dbus_interface) \in conn.matches
        /\ (msg = sent[1] /\ appclient_context.exec_callback # NULL_CB) =>
              /\ Len(invoked) = 1
              /\ invoked[1].slot = "exec"

\* C28 for a process that registered once.
ExecEndToEndFirstRegistration ==
    (ForwardedToSelf /\ inits = 1) => sent[1].iface = dbus_interface

\* C28 for a single-instance process that registered once.
ExecEndToEndSingleInstance ==
    (ForwardedToSelf /\ inits = 1
        /\ ~AppMultiInstance(appclient_context.app_id)) =>
        /\ sent[1].iface = dbus_interface
        /\ MatchRule(dbus_interface) \in conn.matches
        /\ (msg = sent[1] /\ appclient_context.exec_callback # NULL_CB) =>
              (Len(invoked) = 1 /\ invoked[1].slot = "exec")

\* C29: clp_app_mgr_power_off returns CLP_APP_MGR_SUCCESS when the stop
\* broadcast was sent and another value when the stop message could not be
\* made or sent.
C29_PowerOffResult ==
    op.name = "power_off" =>
        /\ sent # <<>> => ret = CLP_APP_MGR_SUCCESS
        /\ sent = <<>> => ret # CLP_APP_MGR_SUCCESS

\* A callback call of the stop slot is among the calls.
StopInvoked(called) == \E i \in DOMAIN called : called[i].slot = "stop"

BroadcastSent == op.name = "power_off" /\ sent # <<>>

RECURSIVE Pieces(_)
Pieces(s) ==
    LET i == FirstIndex(s, DLE[1])
    IN  IF i = 0 THEN <<s>>
        ELSE <<SubSeq(s, 1, i - 1)>> \o Pieces(SubSeq(s, i + 1, Len(s)))

LaunchCalled == IsLaunch /\ calls # <<>> /\ Len(op.args) >= 1

\* C31: the argument string of the daemon launch call, for one or more
\* caller arguments and in every launch variant, is the arguments joined by
\* the byte 16 with no delimiter before the first or after the last, and
\* cutting it at that byte gives back the caller's argument list.
C31_ArgStringSplitsBack ==
    LaunchCalled =>
        /\ Head(calls[1].args) # DLE[1]
        /\ calls[1].args[Len(calls[1].args)] # DLE[1]
        /\ Pieces(calls[1].args) = op.args

\* C31 for the two variadic variants.
VariadicArgStringSplitsBack ==
    (LaunchCalled /\ op.name \in {"exec", "exec_application"}) =>
        /\ Head(calls[1].args) # DLE[1]
        /\ calls[1].args[Len(calls[1].args)] # DLE[1]
        /\ Pieces(calls[1].args) = op.args

\* The slot of the table row a message matches, "none" when it matches no row.
RowSlot(m, own) ==
    IF dbus_message_is_signal(m, own, CLP_APP_MGR_DBUS_SIGNAL_STOP)
       \/ dbus_message_is_signal(m, CLP_APP_MGR_DBUS_INTERFACE,
                                 CLP_APP_MGR_DBUS_SIGNAL_STOP)
    THEN "stop_callback"
    ELSE IF dbus_message_is_signal(m, CLP_WIN_MGR_DBUS_INTERFACE,
                                   CLP_WIN_MGR_DBUS_SIGNAL_UA_GAINED)
    THEN "app_focus_gained_callback"
    ELSE IF dbus_message_is_signal(m, CLP_WIN_MGR_DBUS_INTERFACE,
                                   CLP_WIN_MGR_DBUS_SIGNAL_UA_LOST)
    THEN "app_focus_lost_callback"
    ELSE IF dbus_message_is_signal(m, CLP_APP_MGR_DBUS_INTERFACE,
                                   CLP_APP_MGR_DBUS_SIGNAL_ROTATE)
    THEN "rotate_callback"
    ELSE IF dbus_message_is_signal(m, own, CLP_APP_MGR_DBUS_SIGNAL_EXEC)
    THEN "exec_callback"
    ELSE IF dbus_message_is_signal(m, CLP_APP_MGR_DBUS_INTERFACE,
                                   CLP_APP_MGR_DBUS_SIGNAL_APPEXIT)
    THEN "death_callback"
    ELSE IF dbus_message_is_signal(m, own, CLP_APP_MGR_DBUS_SIGNAL_MESSAGE)
    THEN "message_callback"
    ELSE "none"

MatchedEmptySlot(m, ctx, own) ==
    RowSlot(m, own) # "none" /\ ctx[RowSlot(m, own)] = NULL_CB

\* C32: a dispatch leaves the context as it was, and the dispatch of a
\* message that matches a table row whose slot is empty calls no callback
\* of any slot and allocates no buffer.
C32_EmptySlotNoOp ==
    [][(msg = NoMessage /\ msg' # NoMessage) =>
          /\ appclient_context' = appclient_context
          /\ MatchedEmptySlot(msg', appclient_context, dbus_interface) =>
                /\ invoked' = <<>>
                /\ heap' = NoHeap
                /\ result' \in { DBUS_HANDLER_RESULT_HANDLED,
                                 DBUS_HANDLER_RESULT_NOT_YET_HANDLED }]_vars

C32_Witness ==
    /\ IsOwnExec /\ msg.n = 2
    /\ appclient_context.exec_callback = NULL_CB
    /\ appclient_context.message_callback # NULL_CB
    /\ appclient_context.stop_callback # NULL_CB
    /\ invoked = <<>> /\ heap = NoHeap

\* An exec or Message signal on the own interface was dispatched with the
\* handler of its rule registered.
DecodedForHandler ==
    \/ IsOwnExec /\ appclient_context.exec_callback # NULL_CB
    \/ dbus_message_is_signal(msg, dbus_interface, CLP_APP_MGR_DBUS_SIGNAL_MESSAGE)
          /\ appclient_context.message_callback # NULL_CB

Returned ==
    result \in { DBUS_HANDLER_RESULT_HANDLED, DBUS_HANDLER_RESULT_NOT_YET_HANDLED }

\* C33: for an exec or Message signal dispatched with its handler
\* registered, message_func allocates exactly count argument strings, all
\* of them are live while the callback runs, and none is live when
\* message_func returns.
C33_BuffersOwned ==
    DecodedForHandler =>
        /\ invoked # <<>> =>
              (heap.allocated = 1..msg.n /\ heap.at_call = heap.allocated)
        /\ Returned => (heap.allocated = 1..msg.n /\ heap.live = {})

\* C33 for the payloads that hold as many strings as their count says.
CompleteBuffersOwned ==
    (DecodedForHandler /\ msg.n <= Len(msg.strs)) =>
        /\ invoked # <<>> =>
              (heap.allocated = 1..msg.n /\ heap.at_call = heap.allocated)
        /\ Returned => (heap.allocated = 1..msg.n /\ heap.live = {})

\* No buffer outlives a return of message_func, whatever the payload.
NoBufferLeftOnReturn == Returned => heap.live = {}

\* C34: whatever handler-registration call runs between the test of a
\* slot and the call, the dispatch calls no empty slot, and the handler it
\* calls is the one it found at the test.
C34_CallsTestedHandler ==
    (tested # NoTest /\ result # IN_FLIGHT) =>
        /\ result # SIGSEGV
        /\ \A i \in DOMAIN invoked :
              invoked[i].handler # NULL_CB /\ invoked[i].handler = tested.handler

\* Without a registration call between the test and the call C34 holds.
UndisturbedCallsTestedHandler ==
    (tested # NoTest /\ result # IN_FLIGHT /\ op = NoOp) =>
        /\ result # SIGSEGV
        /\ \A i \in DOMAIN invoked :
              invoked[i].handler # NULL_CB /\ invoked[i].handler = tested.handler

\* C35: message_func returns DBUS_HANDLER_RESULT_NOT_YET_HANDLED exactly
\* for the messages that match no row of the dispatch table; a message that
\* matches a row, the stop signal on the own interface among them, is
\* reported DBUS_HANDLER_RESULT_HANDLED.
C35_UnhandledIffUnmatched ==
    Dispatched =>
        /\ RowSlot(msg, dbus_interface) = "none" <=>
              result = DBUS_HANDLER_RESULT_NOT_YET_HANDLED
        /\ RowSlot(msg, dbus_interface) # "none" =>
              result = DBUS_HANDLER_RESULT_HANDLED

\* C35 without the two rows it fails for: the stop signal on the own
\* interface and the exec signal with count 0.
OtherRowsHandled ==
    (Dispatched /\ ~IsStopOn(dbus_interface) /\ ~(IsOwnExec /\ msg.n = 0)) =>
        (RowSlot(msg, dbus_interface) = "none" <=>
            result = DBUS_HANDLER_RESULT_NOT_YET_HANDLED)

IsOwnMessage ==
    dbus_message_is_signal(msg, dbus_interface, CLP_APP_MGR_DBUS_SIGNAL_MESSAGE)

\* C36: with the handler registered, an exec signal and a Message signal on
\* the own interface whose payload is a count c and c strings call the
\* handler once with (c, those strings) and are reported handled, for
\* every c, 0 included.
C36_ExecLikeMessage ==
    /\ (IsOwnExec /\ appclient_context.exec_callback # NULL_CB
            /\ msg.n = Len(msg.strs)) =>
          /\ invoked = << Call("exec", appclient_context.exec_callback,
                               msg.n, msg.strs) >>
          /\ result = DBUS_HANDLER_RESULT_HANDLED
    /\ (IsOwnMessage /\ appclient_context.message_callback # NULL_CB
            /\ msg.n = Len(msg.strs)) =>
          /\ invoked = << Call("message", appclient_context.message_callback,
                               msg.n, msg.strs) >>
          /\ result = DBUS_HANDLER_RESULT_HANDLED

\* C36 for the Message rule alone, and for the exec rule from count 1 on.
MessageRuleEveryCount ==
    (IsOwnMessage /\ appclient_context.message_callback # NULL_CB
        /\ msg.n = Len(msg.strs)) =>
        /\ invoked = << Call("message", appclient_context.message_callback,
                             msg.n, msg.strs) >>
        /\ result = DBUS_HANDLER_RESULT_HANDLED

ExecRuleFromOne ==
    (IsOwnExec /\ appclient_context.exec_callback # NULL_CB
        /\ msg.n = Len(msg.strs) /\ msg.n >= 1) =>
        /\ invoked = << Call("exec", appclient_context.exec_callback,
                             msg.n, msg.strs) >>
        /\ result = DBUS_HANDLER_RESULT_HANDLED

\* C37: a clp_app_mgr_init that succeeds leaves the seven dispatch slots
\* empty and the post-init slot as it was (after clp_app_mgr_async_init the
\* post-init slot holds that call's handler); an empty slot is filled only
\* by a registration call for it; and a dispatch calls only the handler its
\* slot holds.  So a handler registered before a registration is not called
\* afterwards unless it is registered again.
C37_InitEmptiesSlots ==
    [][/\ (op'.name = "init" /\ op.name = "none"
              /\ ret' = CLP_APP_MGR_SUCCESS) =>
            /\ \A slot \in Slots : appclient_context'[slot] = NULL_CB
            /\ appclient_context'.post_init_callback =
                  appclient_context.post_init_callback
       /\ (op'.name = "async_init" /\ op.name = "none" /\ op'.env.conn_ok) =>
            /\ \A slot \in Slots : appclient_context'[slot] = NULL_CB
            /\ appclient_context'.post_init_callback = op'.handler
       /\ \A slot \in Slots :
            (appclient_context[slot] = NULL_CB
                /\ appclient_context'[slot] # NULL_CB) =>
                (op'.name = "register" /\ op'.slot = slot)
       /\ \A i \in DOMAIN invoked' :
            /\ invoked'[i].handler # NULL_CB
            /\ invoked'[i].handler = appclient_context'[SlotOfCall(invoked'[i])]]_vars

C37_Witness ==
    /\ op.name = "init" /\ ret = CLP_APP_MGR_SUCCESS /\ inits = 2
    /\ appclient_context.post_init_callback # NULL_CB
    /\ \A slot \in Slots : appclient_context[slot] = NULL_CB

\* C38: every call of clp_app_mgr_power_off leaves the registry shutdown
\* flag set, no step clears the flag, and a launch call of any variant made
\* with the flag set returns CLP_APP_MGR_FAILURE, calls no daemon method
\* and sends no signal.
C38_ShutdownMonotonic ==
    [][/\ gconf.Shutdown => gconf'.Shutdown
       /\ (op'.name = "power_off" /\ op.name = "none") => gconf'.Shutdown
       /\ (op'.name \in LaunchVariants /\ op.name = "none" /\ gconf.Shutdown) =>
            /\ ret' = CLP_APP_MGR_FAILURE
            /\ calls' = <<>>
            /\ sent' = <<>>]_vars

C38_Witness ==
    /\ IsLaunch /\ op.shutdown /\ gconf.Shutdown
    /\ appclient_context.init_done /\ peer.ctx.init_done
    /\ op.env.error_code = 0 /\ op.env.inst_id > 0
    /\ ret = CLP_APP_MGR_FAILURE /\ calls = <<>>

(***************************************************************************)
(* The temporary arrays of the variadic calls                              *)
(***************************************************************************)
\* The collection loops: one slot written per collected value, from slot
\* `first` on (slots counted from 0 as in the source); no test of the index.
SlotsWritten(first, values) == { first + k - 1 : k \in 1..Len(values) }

\* clp_app_mgr_exec and clp_app_mgr_exec_application, gchar *params[NAME_SIZE]:
\* params[no_of_params] = g_strdup(value) with no_of_params from 1, in the
\* AlreadyRunning branch only.
params_written(application, args, env, shutdown) ==
    LET r == ClpAppMgrAppLaunchWithArgs(clp_app_mgr_get_app_id(application),
                                        args, env, shutdown)
        params == VaRest(args, r.consumed, env.va_shared, env.junk)
    IN  IF r.rc = APPMGR_ERROR_APP_ALREADY_RUNNING
        THEN SlotsWritten(1, params)
        ELSE {}

\* clp_app_mgr_send_message, message_list = g_malloc0(sizeof(gchar *) * MAX_SIZE):
\* message_list[i++] = g_strdup(value) with i from 0, once the signal exists.
message_list_written(args, env) ==
    IF env.msg_ok THEN SlotsWritten(0, args) ELSE {}

\* The slots the last call wrote, and the number of slots its array has.
Written ==
    CASE op.name \in {"exec", "exec_application"} ->
             params_written(op.application, op.args, op.env, op.shutdown)
      [] op.name = "send_message" -> message_list_written(op.args, op.env)
      [] OTHER -> {}

Capacity == IF op.name = "send_message" THEN MAX_SIZE ELSE NAME_SIZE

\* Argument lists of one value, and of as many values as fill the array of
\* each call and one more.
Repeated(n) == [k \in 1..n |-> <<"x">>]

CollectArgLists ==
    { Repeated(n) : n \in {1, NAME_SIZE - 1, NAME_SIZE, MAX_SIZE + 1} }

ExecManyArgs == LaunchWith("exec", AppNames, CollectArgLists, AnsweredEnvs)

ExecApplicationManyArgs ==
    LaunchWith("exec_application", AppNames, CollectArgLists, AnsweredEnvs)

SendMessageManyArgs == SendMessageTo(AppNames, CollectArgLists, SignalEnvs)

NextCollect ==
    \/ ClpAppMgrInit
    \/ ExecManyArgs
    \/ ExecApplicationManyArgs
    \/ SendMessageManyArgs
    \/ Observe

SpecCollect == Init /\ [][NextCollect]_vars

\* C39: every slot that the collection loop of clp_app_mgr_exec,
\* clp_app_mgr_exec_application (256 slots, filled from 1) or
\* clp_app_mgr_send_message (256 slots, filled from 0) writes is below the
\* capacity of the array, whatever the length of the argument list.
C39_IndicesInArray == \A i \in Written : i < Capacity

\* What holds: the launch calls stay inside params for up to NAME_SIZE - 1
\* arguments, clp_app_mgr_send_message inside message_list for up to MAX_SIZE.
ShortListsInArray ==
    (/\ op.name \in {"exec", "exec_application"} => Len(op.args) < NAME_SIZE
     /\ op.name = "send_message" => Len(op.args) <= MAX_SIZE)
        => \A i \in Written : i < Capacity

\* The first slot past each array is written by the shortest list that
\* overflows it.
FirstOverflow ==
    /\ (op.name \in {"exec", "exec_application"} /\ Len(op.args) = NAME_SIZE
        /\ op.env.error_code = APPMGR_ERROR_APP_ALREADY_RUNNING)
          => NAME_SIZE \in Written
    /\ (op.name = "send_message" /\ Len(op.args) = MAX_SIZE + 1 /\ op.env.msg_ok)
          => MAX_SIZE \in Written

=============================================================================
